---- MODULE Spec2Model ----
(***************************************************************************)
(* Model of backend/ai_generator.py: the ConversationState dataclass and   *)
(* the AIGenerator orchestration (generate_response_sequential, the legacy *)
(* generate_response, and their helpers).  The Anthropic client and the    *)
(* tool manager are the environment: every client.messages.create call     *)
(* either raises or returns a response drawn from Responses, every         *)
(* tool_manager.execute_tool call either raises or returns a string.       *)
(* Each action is one stretch of the code between two such external calls. *)
(***************************************************************************)
EXTENDS Integers, Sequences, FiniteSets, TLC

VARIABLES
    pc,            \* position of the running query ("idle" when none runs)
    mode,          \* entry point in use: "none", "sequential", "legacy"
    max_rounds,    \* argument max_rounds of generate_response_sequential
    round_num,     \* loop variable round_num of generate_response_sequential
    conversation,  \* the ConversationState of the running query
    response,      \* local `response`: None (<<>>) or <<the response object>>
    exec,          \* _execute_tools_for_round: response content, loop position,
                   \* tool_results, tool_use_ids
    legacy,        \* locals of generate_response / _handle_tool_execution
    events,        \* what the mocks record: LLM calls and tool executions, in order
    result,        \* what the entry point handed to its caller
    args,          \* a method called on its own: its name and arguments
    out,           \* what that call produced: None (<<>>) or <<the value>>
    registry,      \* the tool registry: registered tool names, lastSources
    ops,           \* the calls made on the registry and what each returned
    sessions,      \* the session store: the exchanges appended, in order
    entry,         \* the running call of the query entry point
    calls,         \* the calls the entry point made on its collaborators
    sharing,       \* two queries in flight: do they use one registry instance
    registries,    \* the registry instances of the queries in flight
    inflight       \* the queries in flight: position, tool runs, sources read

generatorVars == <<pc, mode, max_rounds, round_num, conversation, response, exec,
                   legacy, events, result>>

methodVars == <<args, out>>

registryVars == <<registry, ops>>

entryVars == <<sessions, entry, calls>>

concurrentVars == <<sharing, registries, inflight>>

vars == <<generatorVars, methodVars, registryVars, entryVars, concurrentVars>>

\* what a query of the generator never touches
outside == <<methodVars, registryVars, entryVars, concurrentVars>>

----------------------------------------------------------------------------
(* Bounds of the model *)

MaxRoundsBound == 2   \* largest max_rounds argument a caller passes
MaxToolUses == 2      \* most tool_use blocks in one model response
MaxResults == 2       \* longest list passed to a method called on its own

(* Program constants *)

DefaultMaxRounds == 2

FALLBACK == "I apologize, but I encountered an error processing your request."

EMPTY_RESPONSE == "I apologize, but I received an empty response."

FINAL_INSTRUCTION == "IMPORTANT: This is your final response. Provide a complete answer based on the tool results you have gathered. Do not request more tools."

----------------------------------------------------------------------------
(* Python values *)

None == <<>>

Some(x) == <<x>>

\* Python truthiness of an Optional[str]: None and "" are falsy
Truthy(opt) == opt # None /\ opt[1] # ""

NoResult == [kind |-> "none"]

Returned(s) == [kind |-> "str", val |-> s]

Raised(e) == [kind |-> "raise", val |-> e]

----------------------------------------------------------------------------
(* The environment: content blocks, responses, outcomes of external calls *)

TextBlock(t) == [type |-> "text", text |-> t]

ToolName(i) == IF i % 2 = 1 THEN "search_course_content" ELSE "get_course_outline"

ToolUseBlock(i) ==
    [type |-> "tool_use", id |-> "toolu_" \o ToString(i), name |-> ToolName(i),
     input |-> "input_" \o ToString(i)]

\* a block of a type the code does not convert (it has no text attribute)
OtherBlock == [type |-> "thinking"]

ToolUses(k) == [i \in 1..k |-> ToolUseBlock(i)]

Contents ==
    {ToolUses(k) : k \in 0..MaxToolUses}
    \cup {<<TextBlock("Answer")>> \o ToolUses(k) : k \in 0..1}
    \cup {<<TextBlock("")>>, <<OtherBlock>>, <<OtherBlock>> \o ToolUses(1)}

StopReasons == {"tool_use", "end_turn"}

Responses == [stop_reason : StopReasons, content : Contents]

LLMOutcomes ==
    {[ok |-> FALSE, error |-> "API Error"]} \cup {[ok |-> TRUE, resp |-> r] : r \in Responses}

ToolOutcomes ==
    {[ok |-> TRUE, value |-> "Search results"], [ok |-> FALSE, error |-> "Tool failed"]}

Queries == {"What is MCP?"}

Histories == {None, Some("User: hi")}

ToolLists == {<<>>, <<"search_course_content">>}

----------------------------------------------------------------------------
(* ConversationState *)

TRUNCATE_LIMIT == 300

Min(a, b) == IF a < b THEN a ELSE b

CreateSharesResults(query, conversation_history, tools, tool_manager) ==
    [initial_query |-> query,
     conversation_history |-> conversation_history,
     tools |-> tools,
     tool_manager |-> tool_manager,
     messages |-> <<[role |-> "user", content |-> query]>>,
     tool_results |-> conversation.tool_results,
     round_number |-> 0,
     final_response |-> None]

\* ConversationState.create
Create(query, conversation_history, tools, tool_manager) ==
    [initial_query |-> query,
     conversation_history |-> conversation_history,
     tools |-> tools,
     tool_manager |-> tool_manager,
     messages |-> <<[role |-> "user", content |-> query]>>,
     tool_results |-> <<>>,
     round_number |-> 0,
     final_response |-> None]

\* the dict add_round_result builds from one content block (text and tool_use only)
ConvertBlock(b) ==
    IF b.type = "text" THEN [type |-> "text", text |-> b.text]
    ELSE [type |-> "tool_use", id |-> b.id, name |-> b.name, input |-> b.input]

ConvertBlocksTextOnly(content) ==
    LET kept == SelectSeq(content, LAMBDA b : b.type = "text")
    IN [i \in 1..Len(kept) |-> ConvertBlock(kept[i])]

RECURSIVE ConvertBlocks(_)
ConvertBlocks(content) ==
    IF content = <<>> THEN <<>>
    ELSE LET b == Head(content)
         IN (IF b.type \in {"text", "tool_use"} THEN <<ConvertBlock(b)>> ELSE <<>>)
            \o ConvertBlocks(Tail(content))

ZipToolResultsCrossed(tool_results, tool_use_ids) ==
    LET n == Min(Len(tool_results), Len(tool_use_ids))
    IN [i \in 1..n |->
          [type |-> "tool_result", tool_use_id |-> tool_use_ids[n + 1 - i],
           content |-> tool_results[i]]]

\* zip(tool_results, tool_use_ids) as tool_result dicts
ZipToolResults(tool_results, tool_use_ids) ==
    [i \in 1..Min(Len(tool_results), Len(tool_use_ids)) |->
        [type |-> "tool_result", tool_use_id |-> tool_use_ids[i], content |-> tool_results[i]]]

AddRoundResultAlwaysAnswers(conv, resp, tool_results, tool_use_ids) ==
    LET assistant == [role |-> "assistant", content |-> ConvertBlocks(resp.content)]
        withAssistant == Append(conv.messages, assistant)
    IN [conv EXCEPT
          !.round_number = @ + 1,
          !.tool_results = @ \o tool_results,
          !.messages =
              Append(withAssistant,
                     [role |-> "user",
                      content |-> ZipToolResults(tool_results, tool_use_ids)])]

AddRoundResultNoCount(conv, resp, tool_results, tool_use_ids) ==
    LET assistant == [role |-> "assistant", content |-> ConvertBlocks(resp.content)]
        withAssistant == Append(conv.messages, assistant)
    IN [conv EXCEPT
          !.tool_results = @ \o tool_results,
          !.messages =
              IF tool_results # <<>> /\ tool_use_ids # <<>>
              THEN Append(withAssistant,
                          [role |-> "user",
                           content |-> ZipToolResults(tool_results, tool_use_ids)])
              ELSE withAssistant]

AddRoundResultPrepends(conv, resp, tool_results, tool_use_ids) ==
    LET assistant == [role |-> "assistant", content |-> ConvertBlocks(resp.content)]
        withAssistant == <<assistant>> \o conv.messages
    IN [conv EXCEPT
          !.round_number = @ + 1,
          !.tool_results = @ \o tool_results,
          !.messages =
              IF tool_results # <<>> /\ tool_use_ids # <<>>
              THEN Append(withAssistant,
                          [role |-> "user",
                           content |-> ZipToolResults(tool_results, tool_use_ids)])
              ELSE withAssistant]

\* ConversationState.add_round_result
AddRoundResult(conv, resp, tool_results, tool_use_ids) ==
    LET assistant == [role |-> "assistant", content |-> ConvertBlocks(resp.content)]
        withAssistant == Append(conv.messages, assistant)
    IN [conv EXCEPT
          !.round_number = @ + 1,
          !.tool_results = @ \o tool_results,
          !.messages =
              IF tool_results # <<>> /\ tool_use_ids # <<>>
              THEN Append(withAssistant,
                          [role |-> "user",
                           content |-> ZipToolResults(tool_results, tool_use_ids)])
              ELSE withAssistant]

\* ConversationState.set_final_response
SetFinalResponse(conv, text) == [conv EXCEPT !.final_response = Some(text)]

GetFinalResponseUnguarded(conv) ==
    IF conv.final_response # None THEN conv.final_response[1] ELSE FALLBACK

\* ConversationState.get_final_response: final_response or the fallback
GetFinalResponse(conv) ==
    IF Truthy(conv.final_response) THEN conv.final_response[1] ELSE FALLBACK

\* result[:300] + "..." if len(result) > 300 else result
TruncateFromLimit(s) ==
    IF Len(s) >= TRUNCATE_LIMIT THEN SubSeq(s, 1, TRUNCATE_LIMIT) \o "..." ELSE s

\* result[:300] + "..." if len(result) > 300 else result
Truncate(s) ==
    IF Len(s) > TRUNCATE_LIMIT THEN SubSeq(s, 1, TRUNCATE_LIMIT) \o "..." ELSE s

RECURSIVE JoinLines(_)
JoinLines(lines) ==
    IF lines = <<>> THEN ""
    ELSE IF Len(lines) = 1 THEN lines[1]
    ELSE lines[1] \o "\n" \o JoinLines(Tail(lines))

\* ConversationState._summarize_tool_results
SummarizeToolResults(tool_results) ==
    IF tool_results = <<>> THEN "No tool results yet."
    ELSE JoinLines([i \in 1..Len(tool_results) |->
                      "Result " \o ToString(i) \o ": " \o Truncate(tool_results[i])])

GetSystemContentHistoryOnce(conv, rn, mr) ==
    [base |-> "SEQUENTIAL_SYSTEM_PROMPT",
     history |-> IF Truthy(conv.conversation_history) /\ rn = 1
                 THEN conv.conversation_history ELSE None,
     round_num |-> rn,
     max_rounds |-> mr,
     note |-> IF rn = 1 THEN "first round" ELSE IF rn = mr THEN "final round" ELSE "continue",
     summary |-> IF rn # 1 /\ conv.tool_results # <<>>
                 THEN Some(SummarizeToolResults(conv.tool_results)) ELSE None,
     final_instruction |-> None]

GetSystemContentSummaryMidRounds(conv, rn, mr) ==
    [base |-> "SEQUENTIAL_SYSTEM_PROMPT",
     history |-> IF Truthy(conv.conversation_history)
                 THEN conv.conversation_history ELSE None,
     round_num |-> rn,
     max_rounds |-> mr,
     note |-> IF rn = 1 THEN "first round" ELSE IF rn = mr THEN "final round" ELSE "continue",
     summary |-> IF rn # 1 /\ rn # mr /\ conv.tool_results # <<>>
                 THEN Some(SummarizeToolResults(conv.tool_results)) ELSE None,
     final_instruction |-> None]

\* ConversationState.get_system_content, kept as the parts the f-strings join
GetSystemContent(conv, rn, mr) ==
    [base |-> "SEQUENTIAL_SYSTEM_PROMPT",
     history |-> IF Truthy(conv.conversation_history)
                 THEN conv.conversation_history ELSE None,
     round_num |-> rn,
     max_rounds |-> mr,
     note |-> IF rn = 1 THEN "first round" ELSE IF rn = mr THEN "final round" ELSE "continue",
     summary |-> IF rn # 1 /\ conv.tool_results # <<>>
                 THEN Some(SummarizeToolResults(conv.tool_results)) ELSE None,
     final_instruction |-> None]

----------------------------------------------------------------------------
(* AIGenerator: pure parts *)

\* the keyword arguments of client.messages.create (base_params left out);
\* an absent key is None
ApiParams(messages, system, tools) ==
    [messages |-> messages,
     system |-> system,
     tools |-> IF tools # <<>> THEN Some(tools) ELSE None,
     tool_choice |-> IF tools # <<>> THEN Some("auto") ELSE None]

RoundParamsToolsOnce(conv, rn, mr) ==
    ApiParams(conv.messages, GetSystemContent(conv, rn, mr),
              IF rn = 1 THEN conv.tools ELSE <<>>)

\* _execute_round: api_params of one round
RoundParams(conv, rn, mr) ==
    ApiParams(conv.messages, GetSystemContent(conv, rn, mr), conv.tools)

FinalParamsWithTools(conv) ==
    ApiParams(conv.messages,
              [GetSystemContent(conv, conv.round_number + 1, conv.round_number + 1)
                  EXCEPT !.final_instruction = Some(FINAL_INSTRUCTION)],
              conv.tools)

\* _execute_final_response: api_params of the forced-final call
FinalParams(conv) ==
    ApiParams(conv.messages,
              [GetSystemContent(conv, conv.round_number + 1, conv.round_number + 1)
                  EXCEPT !.final_instruction = Some(FINAL_INSTRUCTION)],
              <<>>)

\* content[0].text: only a text block has the attribute
FirstText(content) ==
    IF content[1].type = "text"
    THEN [ok |-> TRUE, val |-> content[1].text]
    ELSE [ok |-> FALSE, error |-> "AttributeError"]

\* is there a tool_use block at position >= pos
HasToolUse(content, pos) ==
    \E i \in pos..Len(content) : content[i].type = "tool_use"

\* the first tool_use block at position >= pos
NextToolUse(content, pos) ==
    CHOOSE i \in pos..Len(content) :
        /\ content[i].type = "tool_use"
        /\ \A j \in pos..(i - 1) : content[j].type # "tool_use"

ToolUseBlocks(content) == SelectSeq(content, LAMBDA b : b.type = "tool_use")

ShouldTerminateNoCeiling(resp, rn, mr) ==
    \/ resp = None
    \/ resp[1].stop_reason # "tool_use"

ShouldTerminateIgnoresAnswer(resp, rn, mr) ==
    \/ rn >= mr
    \/ resp = None

\* _should_terminate
ShouldTerminate(resp, rn, mr) ==
    \/ rn >= mr
    \/ resp = None
    \/ resp[1].stop_reason # "tool_use"

NeedsFinalCallStrict(conv, resp, mr) ==
    /\ resp # None
    /\ resp[1].stop_reason = "tool_use"
    /\ conv.round_number > mr
    /\ ~Truthy(conv.final_response)

\* generate_response_sequential: the condition of the forced-final call
NeedsFinalCall(conv, resp, mr) ==
    /\ resp # None
    /\ resp[1].stop_reason = "tool_use"
    /\ conv.round_number >= mr
    /\ ~Truthy(conv.final_response)

ToolStepDropsId(acc, block, outcome) ==
    IF outcome.ok
    THEN [tool_results |-> Append(acc.tool_results, outcome.value),
          tool_use_ids |-> Append(acc.tool_use_ids, block.id)]
    ELSE [tool_results |-> Append(acc.tool_results,
                                  "Error executing tool " \o block.name \o ": " \o outcome.error),
          tool_use_ids |-> acc.tool_use_ids]

ToolStepRawError(acc, block, outcome) ==
    [tool_results |-> Append(acc.tool_results,
                             IF outcome.ok THEN outcome.value ELSE outcome.error),
     tool_use_ids |-> Append(acc.tool_use_ids, block.id)]

\* _execute_tools_for_round: one iteration of the loop on a tool_use block;
\* acc holds tool_results and tool_use_ids
ToolStep(acc, block, outcome) ==
    IF outcome.ok
    THEN [tool_results |-> Append(acc.tool_results, outcome.value),
          tool_use_ids |-> Append(acc.tool_use_ids, block.id)]
    ELSE [tool_results |-> Append(acc.tool_results,
                                  "Error executing tool " \o block.name \o ": " \o outcome.error),
          tool_use_ids |-> Append(acc.tool_use_ids, block.id)]

RoundExceptCountsRound(conv, rn) ==
    LET counted == [conv EXCEPT !.round_number = @ + 1]
    IN IF rn = 1 THEN SetFinalResponse(counted, FALLBACK) ELSE counted

RoundExceptNoFallback(conv, rn) == conv

RoundExceptAlways(conv, rn) == SetFinalResponse(conv, FALLBACK)

\* _execute_round: the except branch
RoundExcept(conv, rn) ==
    IF rn = 1 THEN SetFinalResponse(conv, FALLBACK) ELSE conv

DirectAnswerKeepsFirst(conv, resp, rn) ==
    IF resp.content # <<>>
    THEN IF FirstText(resp.content).ok
         THEN [conv |-> IF conv.final_response = None
                        THEN SetFinalResponse(conv, FirstText(resp.content).val)
                        ELSE conv,
               ret |-> Some(resp)]
         ELSE [conv |-> RoundExcept(conv, rn), ret |-> None]
    ELSE [conv |-> SetFinalResponse(conv, EMPTY_RESPONSE), ret |-> Some(resp)]

\* _execute_round: the branch without tool execution; ret is what the round returns
DirectAnswer(conv, resp, rn) ==
    IF resp.content # <<>>
    THEN IF FirstText(resp.content).ok
         THEN [conv |-> SetFinalResponse(conv, FirstText(resp.content).val), ret |-> Some(resp)]
         ELSE [conv |-> RoundExcept(conv, rn), ret |-> None]
    ELSE [conv |-> SetFinalResponse(conv, EMPTY_RESPONSE), ret |-> Some(resp)]

FinalOutcomeReturnsError(conv, o) ==
    IF ~o.ok
    THEN [conv |-> conv, body |-> Returned(o.error)]
    ELSE IF o.resp.content # <<>>
    THEN IF FirstText(o.resp.content).ok
         THEN LET c == SetFinalResponse(conv, FirstText(o.resp.content).val)
              IN [conv |-> c, body |-> Returned(GetFinalResponse(c))]
         ELSE [conv |-> conv, body |-> Raised(FirstText(o.resp.content).error)]
    ELSE [conv |-> conv, body |-> Returned(GetFinalResponse(conv))]

\* generate_response_sequential after the forced-final call came back with
\* outcome o (_execute_final_response returns None when the call raised): the
\* conversation and what the body of the try statement ends with
FinalOutcome(conv, o) ==
    IF o.ok /\ o.resp.content # <<>>
    THEN IF FirstText(o.resp.content).ok
         THEN LET c == SetFinalResponse(conv, FirstText(o.resp.content).val)
              IN [conv |-> c, body |-> Returned(GetFinalResponse(c))]
         ELSE [conv |-> conv, body |-> Raised(FirstText(o.resp.content).error)]
    ELSE [conv |-> conv, body |-> Returned(GetFinalResponse(conv))]

SequentialExceptReraises(conv) ==
    IF Truthy(conv.final_response)
    THEN Returned(conv.final_response[1])
    ELSE Raised("UnboundLocalError")

\* generate_response_sequential: the except branch
SequentialExcept(conv) ==
    Returned(IF Truthy(conv.final_response) THEN conv.final_response[1] ELSE FALLBACK)

SequentialOutcomeNoCatch(conv, body) == body

\* generate_response_sequential: the try statement around the body's outcome
SequentialOutcome(conv, body) ==
    IF body.kind = "raise" THEN SequentialExcept(conv) ELSE body

\* generate_response: the try statement around the body's outcome
LegacyOutcome(body) ==
    IF body.kind = "raise" THEN Returned(FALLBACK) ELSE body

\* generate_response: system_content
LegacySystem(conversation_history) ==
    [base |-> "SYSTEM_PROMPT",
     history |-> IF Truthy(conversation_history) THEN conversation_history ELSE None]

\* text of a response whose first block becomes the answer
AnswerOf(resp) ==
    IF resp.content # <<>>
    THEN IF FirstText(resp.content).ok
         THEN Returned(FirstText(resp.content).val)
         ELSE Raised(FirstText(resp.content).error)
    ELSE Returned(EMPTY_RESPONSE)

----------------------------------------------------------------------------
(* What the mocked client and tool manager record *)

LLMEvent(phase, rn, params, outcome) ==
    [ev |-> "llm", phase |-> phase, round |-> rn, params |-> params, outcome |-> outcome]

ToolEvent(block, outcome) ==
    [ev |-> "tool", id |-> block.id, name |-> block.name, input |-> block.input,
     outcome |-> outcome]

NoConversation ==
    [initial_query |-> "", conversation_history |-> None, tools |-> <<>>,
     tool_manager |-> FALSE, messages |-> <<[role |-> "user", content |-> ""]>>,
     tool_results |-> <<>>, round_number |-> 0, final_response |-> None]

NoExec == [content |-> <<>>, pos |-> 0, tool_results |-> <<>>, tool_use_ids |-> <<>>]

NoLegacy ==
    [query |-> "", conversation_history |-> None,
     system |-> LegacySystem(None), tools |-> <<>>, tool_manager |-> FALSE,
     messages |-> <<>>, initial_response |-> None, pos |-> 0, tool_results |-> <<>>]

NoArgs == [op |-> "none"]

\* the generator right after construction: no query runs
IdleGenerator ==
    /\ pc = "idle"
    /\ mode = "none"
    /\ max_rounds = 0
    /\ round_num = 0
    /\ conversation = NoConversation
    /\ response = None
    /\ exec = NoExec
    /\ legacy = NoLegacy
    /\ events = <<>>
    /\ result = NoResult

\* ToolManager() (spec 4.3): no tool registered, no sources
NoRegistry == [tools |-> <<>>, last_sources |-> <<>>]

IdleRegistry ==
    /\ registry = NoRegistry
    /\ ops = <<>>

NoEntry == [pc |-> "idle"]

\* the query entry point at rest, the session store empty
IdleEntry ==
    /\ sessions = <<>>
    /\ entry = NoEntry
    /\ calls = <<>>

IdleMethods ==
    /\ args = NoArgs
    /\ out = None

\* no queries in flight side by side
IdleConcurrent ==
    /\ sharing = FALSE
    /\ registries = <<>>
    /\ inflight = <<>>

Init ==
    /\ IdleGenerator
    /\ IdleMethods
    /\ IdleRegistry
    /\ IdleEntry
    /\ IdleConcurrent

----------------------------------------------------------------------------
(* generate_response_sequential *)

\* the entry point returns (or raises) out of its try statement
Finish(conv, body) ==
    /\ pc' = "done"
    /\ conversation' = conv
    /\ result' = SequentialOutcome(conv, body)

\* after the loop: the forced-final decision, else return get_final_response()
PostLoop(conv, resp) ==
    /\ response' = resp
    /\ IF NeedsFinalCall(conv, resp, max_rounds)
       THEN /\ pc' = "final"
            /\ conversation' = conv
            /\ result' = result
       ELSE Finish(conv, Returned(GetFinalResponse(conv)))

\* the end of one loop iteration: break, or go on to the next round
AfterRound(conv, resp) ==
    IF ShouldTerminate(resp, round_num, max_rounds)
    THEN /\ round_num' = round_num
         /\ PostLoop(conv, resp)
    ELSE /\ round_num' = round_num + 1
         /\ pc' = "round"
         /\ conversation' = conv
         /\ response' = resp
         /\ result' = result

\* the call of generate_response_sequential up to the first model call
StartSequential ==
    /\ pc = "idle"
    /\ UNCHANGED outside
    /\ \E q \in Queries, h \in Histories, t \in ToolLists, tm \in BOOLEAN,
          mr \in 0..MaxRoundsBound :
          /\ mode' = "sequential"
          /\ max_rounds' = mr
          /\ events' = <<>>
          /\ exec' = NoExec
          /\ legacy' = NoLegacy
          /\ response' = None
          /\ IF mr >= 1
             THEN /\ round_num' = 1
                  /\ pc' = "round"
                  /\ conversation' = Create(q, h, t, tm)
                  /\ result' = NoResult
             ELSE \* the loop body never runs and `response` is read unbound
                  /\ round_num' = 0
                  /\ Finish(Create(q, h, t, tm), Raised("UnboundLocalError"))

\* _execute_round: the model call of a round and what follows it up to the
\* next external call
RoundCall ==
    /\ pc = "round"
    /\ UNCHANGED outside
    /\ UNCHANGED <<mode, max_rounds, legacy>>
    /\ \E o \in LLMOutcomes :
        /\ events' = Append(events,
                            LLMEvent("round", round_num,
                                     RoundParams(conversation, round_num, max_rounds), o))
        /\ IF ~o.ok
           THEN /\ exec' = exec
                /\ AfterRound(RoundExcept(conversation, round_num), None)
           ELSE IF o.resp.stop_reason = "tool_use" /\ conversation.tool_manager
           THEN IF HasToolUse(o.resp.content, 1)
                THEN /\ pc' = "tools"
                     /\ response' = Some(o.resp)
                     /\ exec' = [content |-> o.resp.content, pos |-> 1,
                                 tool_results |-> <<>>, tool_use_ids |-> <<>>]
                     /\ UNCHANGED <<conversation, round_num, result>>
                ELSE /\ exec' = [content |-> o.resp.content,
                                 pos |-> Len(o.resp.content) + 1,
                                 tool_results |-> <<>>, tool_use_ids |-> <<>>]
                     /\ AfterRound(AddRoundResult(conversation, o.resp, <<>>, <<>>),
                                   Some(o.resp))
           ELSE LET d == DirectAnswer(conversation, o.resp, round_num)
                IN /\ exec' = exec
                   /\ AfterRound(d.conv, d.ret)

\* _execute_tools_for_round: the execution of the next tool_use block; after
\* the last one the round is recorded and the loop goes on
ToolExec ==
    /\ pc = "tools"
    /\ UNCHANGED outside
    /\ UNCHANGED <<mode, max_rounds, legacy>>
    /\ LET resp == response[1]
           i == NextToolUse(resp.content, exec.pos)
           block == resp.content[i]
       IN \E o \in ToolOutcomes :
             LET acc == ToolStep(exec, block, o)
             IN /\ events' = Append(events, ToolEvent(block, o))
                /\ exec' = [content |-> resp.content, pos |-> i + 1,
                            tool_results |-> acc.tool_results,
                            tool_use_ids |-> acc.tool_use_ids]
                /\ IF HasToolUse(resp.content, i + 1)
                   THEN UNCHANGED <<pc, conversation, response, round_num, result>>
                   ELSE AfterRound(AddRoundResult(conversation, resp, acc.tool_results,
                                                  acc.tool_use_ids),
                                   response)

\* _execute_final_response and the rest of generate_response_sequential
FinalCall ==
    /\ pc = "final"
    /\ UNCHANGED outside
    /\ UNCHANGED <<mode, max_rounds, legacy, round_num, response, exec>>
    /\ \E o \in LLMOutcomes :
        /\ events' = Append(events,
                            LLMEvent("final", conversation.round_number + 1,
                                     FinalParams(conversation), o))
        /\ LET f == FinalOutcome(conversation, o)
           IN Finish(f.conv, f.body)

----------------------------------------------------------------------------
(* generate_response, the single-round path *)

LegacyFinish(body) ==
    /\ pc' = "done"
    /\ result' = LegacyOutcome(body)

\* the call of generate_response up to the first model call
StartLegacy ==
    /\ pc = "idle"
    /\ UNCHANGED outside
    /\ \E q \in Queries, h \in Histories, t \in ToolLists, tm \in BOOLEAN :
          legacy' = [query |-> q, conversation_history |-> h,
                     system |-> LegacySystem(h), tools |-> t,
                     tool_manager |-> tm,
                     messages |-> <<[role |-> "user", content |-> q]>>,
                     initial_response |-> None, pos |-> 0, tool_results |-> <<>>]
    /\ mode' = "legacy"
    /\ pc' = "legacy_call"
    /\ events' = <<>>
    /\ result' = NoResult
    /\ conversation' = NoConversation
    /\ UNCHANGED <<max_rounds, round_num, response, exec>>

\* generate_response: the initial model call; with tool use and a tool manager
\* _handle_tool_execution starts
LegacyCall ==
    /\ pc = "legacy_call"
    /\ UNCHANGED outside
    /\ UNCHANGED <<mode, max_rounds, round_num, conversation, response, exec>>
    /\ \E o \in LLMOutcomes :
        /\ events' = Append(events,
                            LLMEvent("first", 0,
                                     ApiParams(legacy.messages, legacy.system, legacy.tools),
                                     o))
        /\ IF ~o.ok
           THEN /\ legacy' = legacy
                /\ LegacyFinish(Raised(o.error))
           ELSE IF o.resp.stop_reason = "tool_use" /\ legacy.tool_manager
           THEN LET started ==
                       [legacy EXCEPT
                          !.initial_response = Some(o.resp),
                          !.messages = Append(@, [role |-> "assistant",
                                                  content |-> o.resp.content]),
                          !.pos = 1]
                IN /\ legacy' = started
                   /\ result' = result
                   /\ pc' = IF HasToolUse(o.resp.content, 1)
                            THEN "legacy_tools" ELSE "legacy_followup"
           ELSE /\ legacy' = [legacy EXCEPT !.initial_response = Some(o.resp)]
                /\ LegacyFinish(AnswerOf(o.resp))

\* _handle_tool_execution: the execution of the next tool_use block; after the
\* last one the tool results are appended as a single message
LegacyToolExec ==
    /\ pc = "legacy_tools"
    /\ UNCHANGED outside
    /\ UNCHANGED <<mode, max_rounds, round_num, conversation, response, exec>>
    /\ LET content == legacy.initial_response[1].content
           i == NextToolUse(content, legacy.pos)
           block == content[i]
       IN \E o \in ToolOutcomes :
            /\ events' = Append(events, ToolEvent(block, o))
            /\ IF ~o.ok
               THEN \* the exception leaves _handle_tool_execution
                    /\ legacy' = [legacy EXCEPT !.pos = i]
                    /\ LegacyFinish(Raised(o.error))
               ELSE LET results ==
                           Append(legacy.tool_results,
                                  [type |-> "tool_result", tool_use_id |-> block.id,
                                   content |-> o.value])
                    IN /\ result' = result
                       /\ IF HasToolUse(content, i + 1)
                          THEN /\ pc' = pc
                               /\ legacy' = [legacy EXCEPT !.pos = i + 1,
                                                           !.tool_results = results]
                          ELSE /\ pc' = "legacy_followup"
                               /\ legacy' =
                                    [legacy EXCEPT
                                       !.pos = i + 1,
                                       !.tool_results = results,
                                       !.messages = Append(@, [role |-> "user",
                                                               content |-> results])]

\* _handle_tool_execution: the follow-up model call without tools
LegacyFollowup ==
    /\ pc = "legacy_followup"
    /\ UNCHANGED outside
    /\ UNCHANGED <<mode, max_rounds, round_num, conversation, response, exec, legacy>>
    /\ \E o \in LLMOutcomes :
        /\ events' = Append(events,
                            LLMEvent("followup", 0,
                                     ApiParams(legacy.messages, legacy.system, <<>>), o))
        /\ IF ~o.ok
           THEN LegacyFinish(Raised(o.error))
           ELSE LegacyFinish(AnswerOf(o.resp))

----------------------------------------------------------------------------

\* the caller takes the result; the locals of the call are gone, and the
\* ConversationState is dropped as the query left it (nothing clears it)
Return ==
    /\ pc = "done"
    /\ UNCHANGED outside
    /\ pc' = "idle"
    /\ mode' = "none"
    /\ max_rounds' = 0
    /\ round_num' = 0
    /\ conversation' = conversation
    /\ response' = None
    /\ exec' = NoExec
    /\ legacy' = NoLegacy
    /\ events' = <<>>
    /\ result' = NoResult

Next ==
    \/ StartSequential
    \/ RoundCall
    \/ ToolExec
    \/ FinalCall
    \/ StartLegacy
    \/ LegacyCall
    \/ LegacyToolExec
    \/ LegacyFollowup
    \/ Return

Spec == Init /\ [][Next]_vars

----------------------------------------------------------------------------
(* Methods of ConversationState called on their own, on arguments of any shape *)

RECURSIVE Filler(_)
\* a string of n characters
Filler(n) ==
    IF n = 0 THEN ""
    ELSE IF n % 2 = 0 THEN LET h == Filler(n \div 2) IN h \o h
    ELSE "x" \o Filler(n - 1)

\* a tool result of n characters that starts and ends recognisably
Entry(n) == IF n < 2 THEN Filler(n) ELSE "<" \o Filler(n - 2) \o ">"

\* tool results around the truncation limit, and one of two lines
Entries ==
    {Entry(n) : n \in {0, 1, TRUNCATE_LIMIT - 1, TRUNCATE_LIMIT,
                       TRUNCATE_LIMIT + 1, 2 * TRUNCATE_LIMIT}}
    \cup {"[Course A]\nContent 1"}

RECURSIVE SeqsUpTo(_, _)
\* the sequences over S of length at most n
SeqsUpTo(S, n) ==
    IF n = 0 THEN {<<>>}
    ELSE LET shorter == SeqsUpTo(S, n - 1)
         IN shorter \cup {Append(q, x) : q \in shorter, x \in S}

ResultsOf(n) == [i \in 1..n |-> "result_" \o ToString(i)]

IdsOf(n) == [i \in 1..n |-> "toolu_" \o ToString(i)]

\* a state just created, and one that has recorded a round
RecordedOnce ==
    AddRoundResult(Create("What is MCP?", None, <<>>, TRUE),
                   [stop_reason |-> "tool_use", content |-> ToolUses(1)],
                   <<"Search results">>, <<"toolu_1">>)

AddRoundArgs ==
    {[op |-> "add_round_result", conv |-> c, resp |-> r,
      tool_results |-> ResultsOf(n), tool_use_ids |-> IdsOf(m)] :
        c \in {Create("What is MCP?", None, <<>>, TRUE), RecordedOnce},
        r \in Responses, n \in 0..MaxResults, m \in 0..MaxResults}

SummarizeArgs ==
    {[op |-> "_summarize_tool_results", tool_results |-> rs] :
        rs \in SeqsUpTo(Entries, MaxResults)}

InitMethods ==
    /\ IdleGenerator
    /\ IdleRegistry
    /\ IdleEntry
    /\ IdleConcurrent
    /\ args \in AddRoundArgs \cup SummarizeArgs
    /\ out = None

\* conversation.add_round_result(response, tool_results, tool_use_ids)
CallAddRoundResult ==
    /\ args.op = "add_round_result"
    /\ out = None
    /\ out' = Some(AddRoundResult(args.conv, args.resp,
                                  args.tool_results, args.tool_use_ids))
    /\ UNCHANGED <<generatorVars, concurrentVars, registryVars, entryVars, args>>

\* conversation._summarize_tool_results()
CallSummarizeToolResults ==
    /\ args.op = "_summarize_tool_results"
    /\ out = None
    /\ out' = Some(SummarizeToolResults(args.tool_results))
    /\ UNCHANGED <<generatorVars, concurrentVars, registryVars, entryVars, args>>

NextMethods ==
    \/ CallAddRoundResult
    \/ CallSummarizeToolResults

SpecMethods == InitMethods /\ [][NextMethods]_vars

----------------------------------------------------------------------------
(* The tool registry (ToolManager), after spec 4.3 and the tests of
   test_course_search_tool.py; its code is not among the sources *)

MaxOps == 3   \* most executions, resets and reads of the sources in one run

ToolNames == {"search_course_content", "get_course_outline"}

\* the sources a tool produces when it finds something
SourcesOf(name) ==
    IF name = "search_course_content"
    THEN <<[text |-> "Introduction to MCP - Lesson 1",
            url |-> Some("https://example.com/mcp/lesson1")],
           [text |-> "Course B", url |-> None]>>
    ELSE <<[text |-> "Course A", url |-> None]>>

\* how one execution of a handler ends: results found, nothing found, or the
\* store failed and the handler returns the error text
HandlerOutcomes == {"found", "empty", "error"}

\* the sources one execution of the handler produces
Produced(name, outcome) == IF outcome = "found" THEN SourcesOf(name) ELSE <<>>

\* the string one execution of the handler returns
HandlerResult(name, outcome) ==
    IF outcome = "found" THEN "Search results"
    ELSE IF outcome = "empty" THEN "No relevant content found."
    ELSE "Vector store connection failed"

\* register(handler): keyed by name, a second registration replaces the first
RegisterTool(reg, name) ==
    IF \E i \in 1..Len(reg.tools) : reg.tools[i] = name
    THEN reg
    ELSE [reg EXCEPT !.tools = Append(@, name)]

IsRegistered(reg, name) == \E i \in 1..Len(reg.tools) : reg.tools[i] = name

RecordSourcesAppends(reg, sources) == [reg EXCEPT !.last_sources = @ \o sources]

\* lastSources is overwritten, not appended, by each tool execution
RecordSources(reg, sources) == [reg EXCEPT !.last_sources = sources]

ResetSourcesKeeps(reg) == reg

\* resetSources(): clears to empty
ResetSources(reg) == [reg EXCEPT !.last_sources = <<>>]

\* getLastSources()
GetLastSources(reg) == reg.last_sources

\* tool_manager.register_tool(tool)
Register ==
    /\ \E name \in ToolNames : registry' = RegisterTool(registry, name)
    /\ registry' # registry
    /\ UNCHANGED <<generatorVars, concurrentVars, methodVars, entryVars, ops>>

\* tool_manager.execute_tool(name, ...): an unknown name fails, otherwise the
\* handler runs and leaves its sources
ExecuteTool ==
    /\ Len(ops) < MaxOps
    /\ \E name \in ToolNames, outcome \in HandlerOutcomes :
          IF IsRegistered(registry, name)
          THEN /\ registry' = RecordSources(registry, Produced(name, outcome))
               /\ ops' = Append(ops, [op |-> "execute", name |-> name,
                                      outcome |-> outcome,
                                      ret |-> Returned(HandlerResult(name, outcome))])
          ELSE /\ registry' = registry
               /\ ops' = Append(ops, [op |-> "execute", name |-> name,
                                      outcome |-> "unknown",
                                      ret |-> Raised("UnknownToolError")])
    /\ UNCHANGED <<generatorVars, concurrentVars, methodVars, entryVars>>

\* tool_manager.reset_sources()
CallResetSources ==
    /\ Len(ops) < MaxOps
    /\ registry' = ResetSources(registry)
    /\ ops' = Append(ops, [op |-> "reset"])
    /\ UNCHANGED <<generatorVars, concurrentVars, methodVars, entryVars>>

\* tool_manager.get_last_sources()
CallGetLastSources ==
    /\ Len(ops) < MaxOps
    /\ ops' = Append(ops, [op |-> "get", ret |-> GetLastSources(registry)])
    /\ UNCHANGED <<generatorVars, concurrentVars, methodVars, entryVars, registry>>

InitRegistry ==
    /\ IdleGenerator
    /\ IdleMethods
    /\ IdleRegistry
    /\ IdleEntry
    /\ IdleConcurrent

NextRegistry ==
    \/ Register
    \/ ExecuteTool
    \/ CallResetSources
    \/ CallGetLastSources

SpecRegistry == InitRegistry /\ [][NextRegistry]_vars

----------------------------------------------------------------------------
(* The query entry point (RAGSystem.query), after spec 6 and the tests of
   test_rag_system.py; its code is not among the sources *)

MaxExchanges == 2   \* most exchanges the session store holds in one run

SessionIds == {"session_1", "session_2"}

\* what the generator hands back to the entry point, or the exception it raises
GeneratorOutcomes ==
    {Returned("Answer"), Returned(FALLBACK), Raised("AI API Error")}

\* what the tools run by the generator may leave in the registry
SourcesLeft(reg) ==
    {reg.last_sources} \cup {Produced(n, o) : n \in ToolNames, o \in HandlerOutcomes}

\* getHistory(sessionId): the exchanges of the session so far, None when it has none
GetHistory(store, sid) ==
    LET own == SelectSeq(store, LAMBDA x : x.session_id = sid)
    IN IF own = <<>> THEN None ELSE Some(own)

\* the history the entry point fetches: only when a session id is given
FetchedHistory(store, session_id) ==
    IF session_id # None THEN GetHistory(store, session_id[1]) ELSE None

WithExchangeAlways(store, session_id, query, answer) ==
    Append(store, [session_id |-> IF session_id # None THEN session_id[1] ELSE "",
                   query |-> query, answer |-> answer])

\* the store after the entry point's "if session_id: add_exchange(...)"
WithExchange(store, session_id, query, answer) ==
    IF session_id # None
    THEN Append(store, [session_id |-> session_id[1], query |-> query,
                        answer |-> answer])
    ELSE store

\* both tools are registered when the system is built
BuiltRegistry ==
    RegisterTool(RegisterTool(NoRegistry, "search_course_content"),
                 "get_course_outline")

\* query(text, session_id) up to the call of the generator
QueryStart ==
    /\ entry.pc = "idle"
    /\ Len(sessions) < MaxExchanges
    /\ \E q \in Queries, sid \in {None} \cup {Some(x) : x \in SessionIds} :
          /\ entry' = [pc |-> "generate", query |-> q, session_id |-> sid,
                       history |-> FetchedHistory(sessions, sid),
                       answer |-> None, sources |-> <<>>, result |-> NoResult]
          /\ calls' = IF sid # None
                      THEN <<[call |-> "get_conversation_history",
                              session_id |-> sid[1]]>>
                      ELSE <<>>
    /\ UNCHANGED <<generatorVars, concurrentVars, methodVars, registryVars, sessions>>

\* the call of the generator, which may run tools on the registry; its
\* exception leaves the entry point
QueryGenerate ==
    /\ entry.pc = "generate"
    /\ \E o \in GeneratorOutcomes, left \in SourcesLeft(registry) :
          /\ registry' = RecordSources(registry, left)
          /\ calls' = Append(calls, [call |-> "generate_response",
                                     query |-> entry.query,
                                     conversation_history |-> entry.history,
                                     tools |-> registry.tools,
                                     tool_manager |-> TRUE,
                                     ret |-> o])
          /\ entry' = IF o.kind = "raise"
                      THEN [entry EXCEPT !.pc = "done", !.result = o]
                      ELSE [entry EXCEPT !.pc = "finish", !.answer = Some(o.val)]
    /\ UNCHANGED <<generatorVars, concurrentVars, methodVars, ops, sessions>>

\* the rest of query: read the sources, reset them, append the exchange, return
QueryFinish ==
    /\ entry.pc = "finish"
    /\ LET sources == GetLastSources(registry)
           answer == entry.answer[1]
       IN /\ registry' = ResetSources(registry)
          /\ sessions' = WithExchange(sessions, entry.session_id, entry.query, answer)
          /\ calls' = calls
                      \o <<[call |-> "get_last_sources", ret |-> sources],
                           [call |-> "reset_sources"]>>
                      \o (IF sessions' # sessions
                          THEN <<[call |-> "add_exchange",
                                  exchange |-> sessions'[Len(sessions')]]>>
                          ELSE <<>>)
          /\ entry' = [entry EXCEPT !.pc = "done", !.sources = sources,
                                    !.result = Returned(answer)]
    /\ UNCHANGED <<generatorVars, concurrentVars, methodVars, ops>>

\* the caller has the answer and the sources
QueryReturn ==
    /\ entry.pc = "done"
    /\ entry' = NoEntry
    /\ calls' = <<>>
    /\ UNCHANGED <<generatorVars, concurrentVars, methodVars, registryVars, sessions>>

InitEntry ==
    /\ IdleGenerator
    /\ IdleMethods
    /\ registry = BuiltRegistry
    /\ ops = <<>>
    /\ IdleEntry
    /\ IdleConcurrent

NextEntry ==
    \/ QueryStart
    \/ QueryGenerate
    \/ QueryFinish
    \/ QueryReturn

SpecEntry == InitEntry /\ [][NextEntry]_vars

----------------------------------------------------------------------------
(* Two queries in flight at once, after spec 5: each runs its tools on a
   registry, then the entry point reads the sources and resets them; the code
   of the registry and of the entry point is not among the sources *)

MaxToolRuns == 2   \* most tool executions of one query in flight

QueryIds == {1, 2}

\* a registry instance as the system builds it, with the query whose tool
\* execution wrote lastSources last (0: none since the last reset)
BuiltInstance ==
    [tools |-> BuiltRegistry.tools, last_sources |-> BuiltRegistry.last_sources,
     written_by |-> 0]

NotStarted ==
    [pc |-> "idle", runs |-> 0, produced |-> None, sources |-> <<>>, read_from |-> 0]

RegistryOfShared(q) == 1

\* the registry instance query q was given: the one shared instance, or its own
RegistryOf(q) == IF sharing THEN 1 ELSE q

\* query(...) is called
StartQuery(q) ==
    /\ inflight[q].pc = "idle"
    /\ inflight' = [inflight EXCEPT ![q].pc = "running"]
    /\ UNCHANGED <<generatorVars, methodVars, registryVars, entryVars, sharing,
                   registries>>

\* a round of query q executes a tool on its registry
RunTool(q) ==
    /\ inflight[q].pc = "running"
    /\ inflight[q].runs < MaxToolRuns
    /\ \E name \in ToolNames, outcome \in HandlerOutcomes :
          LET r == RegistryOf(q)
              sources == Produced(name, outcome)
          IN /\ registries' =
                   [registries EXCEPT
                      ![r] = [RecordSources(@, sources) EXCEPT !.written_by = q]]
             /\ inflight' = [inflight EXCEPT ![q].runs = @ + 1,
                                             ![q].produced = Some(sources)]
    /\ UNCHANGED <<generatorVars, methodVars, registryVars, entryVars, sharing>>

\* the generator has returned and the entry point reads the sources for query q
ReadSources(q) ==
    /\ inflight[q].pc = "running"
    /\ LET reg == registries[RegistryOf(q)]
       IN inflight' = [inflight EXCEPT ![q].pc = "read",
                                       ![q].sources = GetLastSources(reg),
                                       ![q].read_from = reg.written_by]
    /\ UNCHANGED <<generatorVars, methodVars, registryVars, entryVars, sharing,
                   registries>>

\* the entry point resets the sources and returns the answer of query q
ResetAndReturn(q) ==
    /\ inflight[q].pc = "read"
    /\ registries' =
          [registries EXCEPT
             ![RegistryOf(q)] = [ResetSources(@) EXCEPT !.written_by = 0]]
    /\ inflight' = [inflight EXCEPT ![q].pc = "done"]
    /\ UNCHANGED <<generatorVars, methodVars, registryVars, entryVars, sharing>>

InitConcurrent ==
    /\ IdleGenerator
    /\ IdleMethods
    /\ IdleRegistry
    /\ IdleEntry
    /\ sharing \in BOOLEAN
    /\ registries = [r \in QueryIds |-> BuiltInstance]
    /\ inflight = [q \in QueryIds |-> NotStarted]

NextConcurrent ==
    \E q \in QueryIds :
        \/ StartQuery(q)
        \/ RunTool(q)
        \/ ReadSources(q)
        \/ ResetAndReturn(q)

SpecConcurrent == InitConcurrent /\ [][NextConcurrent]_vars

----------------------------------------------------------------------------
(* Properties *)

LLMCalls == SelectSeq(events, LAMBDA e : e.ev = "llm")

ToolCalls == SelectSeq(events, LAMBDA e : e.ev = "tool")

\* every model call made so far returned a response with stop reason tool_use
AlwaysToolUse ==
    \A i \in 1..Len(LLMCalls) :
       LLMCalls[i].outcome.ok /\ LLMCalls[i].outcome.resp.stop_reason = "tool_use"

\* the texts a model answer can be: the first text block of a returned response
AnswerTexts ==
    {LLMCalls[i].outcome.resp.content[1].text :
        i \in {j \in 1..Len(LLMCalls) :
                 /\ LLMCalls[j].outcome.ok
                 /\ LLMCalls[j].outcome.resp.content # <<>>
                 /\ LLMCalls[j].outcome.resp.content[1].type = "text"}}

\* C1: whatever the model calls and the tools do (return or fail), the
\* multi-round entry point hands its caller a string, never an exception, and
\* the string is non-empty: a model answer, the empty-response placeholder or
\* the fallback text.
C1_SequentialAlwaysReturnsText ==
    (mode = "sequential" /\ pc = "done") =>
        /\ result.kind = "str"
        /\ result.val # ""
        /\ result.val \in AnswerTexts \cup {EMPTY_RESPONSE, FALLBACK}

\* a multi-round query that ended after a tool failed and a later model call failed
C1_Witness ==
    /\ mode = "sequential"
    /\ pc = "done"
    /\ \E i \in 1..Len(ToolCalls) : ~ToolCalls[i].outcome.ok
    /\ \E i \in 1..Len(LLMCalls) : ~LLMCalls[i].outcome.ok
    /\ result = Returned(FALLBACK)

\* C2 as stated: with max_rounds = 2 and a model that requests tool use on
\* every call (stop reason tool_use and a tool_use block in the response), a
\* finished multi-round query has made exactly 3 model calls and the third
\* carries no tool definitions.
C2_ThreeCallsOriginal ==
    (/\ mode = "sequential"
     /\ pc = "done"
     /\ max_rounds = DefaultMaxRounds
     /\ AlwaysToolUse
     /\ \A i \in 1..Len(LLMCalls) : HasToolUse(LLMCalls[i].outcome.resp.content, 1)) =>
        /\ Len(LLMCalls) = 3
        /\ LLMCalls[3].phase = "final"
        /\ LLMCalls[3].params.tools = None
        /\ LLMCalls[3].params.tool_choice = None

\* C2 amended: with max_rounds = 2, a tool manager supplied and a model that
\* requests tool use on every call, a finished multi-round query has made
\* exactly 3 model calls (round 1, round 2, forced-final) and the third carries
\* no tool definitions.
C2_ThreeCallsWithManager ==
    (/\ mode = "sequential"
     /\ pc = "done"
     /\ max_rounds = DefaultMaxRounds
     /\ conversation.tool_manager
     /\ AlwaysToolUse) =>
        /\ Len(LLMCalls) = 3
        /\ LLMCalls[1].phase = "round" /\ LLMCalls[1].round = 1
        /\ LLMCalls[2].phase = "round" /\ LLMCalls[2].round = 2
        /\ LLMCalls[3].phase = "final"
        /\ LLMCalls[3].params.tools = None
        /\ LLMCalls[3].params.tool_choice = None

\* a finished two-round query with tools offered whose three calls all asked for tools
C2_Witness ==
    /\ mode = "sequential"
    /\ pc = "done"
    /\ max_rounds = DefaultMaxRounds
    /\ conversation.tool_manager
    /\ conversation.tools # <<>>
    /\ AlwaysToolUse
    /\ Len(LLMCalls) = 3
    /\ LLMCalls[1].params.tools # None

\* C3: when the model call of round 1 returns a response whose stop reason is
\* not tool use, that call is the only model call of the query and no tool is
\* executed, whatever max_rounds >= 1 is.
C3_DirectAnswerOneCall ==
    (/\ mode = "sequential"
     /\ Len(events) >= 1
     /\ events[1].outcome.ok
     /\ events[1].outcome.resp.stop_reason # "tool_use") =>
        /\ Len(events) = 1
        /\ pc = "done"

\* a direct answer in round 1 of a query that was allowed two rounds and had tools
C3_Witness ==
    /\ mode = "sequential"
    /\ max_rounds > 1
    /\ conversation.tool_manager
    /\ Len(events) = 1
    /\ events[1].outcome.ok
    /\ events[1].outcome.resp.stop_reason = "end_turn"
    /\ result = Returned("Answer")

\* the tool_use blocks of the response _execute_tools_for_round works on
ExecBlocks == ToolUseBlocks(exec.content)

\* _execute_tools_for_round has gone through the whole response
ExecReturned == exec.pos > 0 /\ ~HasToolUse(exec.content, exec.pos)

\* C4: what _execute_tools_for_round returns has one result and one id per
\* tool_use block of the response, ids[i] being the id of the i-th tool_use
\* block, whether or not executions failed; while it runs, the two sequences
\* have one entry per block already gone through.
C4_ResultsAndIdsMatchBlocks ==
    /\ Len(exec.tool_results) = Len(exec.tool_use_ids)
    /\ Len(exec.tool_use_ids) <= Len(ExecBlocks)
    /\ \A i \in 1..Len(exec.tool_use_ids) : exec.tool_use_ids[i] = ExecBlocks[i].id
    /\ ExecReturned =>
          /\ Len(exec.tool_results) = Len(ExecBlocks)
          /\ Len(exec.tool_use_ids) = Len(ExecBlocks)

\* the tool loop returned for a response of two tool_use blocks: the first
\* execution failed, the second succeeded
C4_Witness ==
    /\ ExecReturned
    /\ Len(ExecBlocks) = 2
    /\ exec.tool_results =
          <<"Error executing tool search_course_content: Tool failed", "Search results">>
    /\ exec.tool_use_ids = <<"toolu_1", "toolu_2">>

\* the last model call recorded
LastLLM == LLMCalls[Len(LLMCalls)]

\* the tool executions recorded after the last model call
RoundToolCalls ==
    LET last == CHOOSE i \in 1..Len(events) :
                    /\ events[i].ev = "llm"
                    /\ \A j \in (i + 1)..Len(events) : events[j].ev = "tool"
    IN SubSeq(events, last + 1, Len(events))

\* the last model call is a round whose response leads to tool execution
InToolRound ==
    /\ mode = "sequential"
    /\ events # <<>>
    /\ LastLLM.phase = "round"
    /\ LastLLM.outcome.ok
    /\ LastLLM.outcome.resp.stop_reason = "tool_use"
    /\ conversation.tool_manager

\* the string the round keeps for execution e of a block
ExpectedToolResult(e) ==
    IF e.outcome.ok THEN e.outcome.value
    ELSE "Error executing tool " \o e.name \o ": " \o e.outcome.error

\* C5: in a round with tool use the tool_use blocks are executed one at a time
\* in block order, each exactly once; a failed execution leaves the string
\* "Error executing tool {name}: {message}" at its block's position and the
\* later blocks are still executed; once the last block is done the round is
\* in the transcript (the assistant message, then the tool results by block).
C5_ToolsInOrderFailuresDegrade ==
    InToolRound =>
        LET content == LastLLM.outcome.resp.content
            blocks == ToolUseBlocks(content)
            n == Len(RoundToolCalls)
        IN /\ n <= Len(blocks)
           /\ \A i \in 1..n : /\ RoundToolCalls[i].id = blocks[i].id
                              /\ RoundToolCalls[i].name = blocks[i].name
                              /\ RoundToolCalls[i].input = blocks[i].input
           /\ exec.tool_results = [i \in 1..n |-> ExpectedToolResult(RoundToolCalls[i])]
           /\ (pc = "tools") = (n < Len(blocks))
           /\ pc # "tools" =>
                 LET msgs == conversation.messages
                     k == Len(msgs)
                 IN /\ conversation.round_number = LastLLM.round
                    /\ IF n = 0
                       THEN msgs[k] = [role |-> "assistant", content |-> ConvertBlocks(content)]
                       ELSE /\ msgs[k - 1] =
                                  [role |-> "assistant", content |-> ConvertBlocks(content)]
                            /\ msgs[k] =
                                  [role |-> "user",
                                   content |->
                                      [i \in 1..n |->
                                         [type |-> "tool_result",
                                          tool_use_id |-> blocks[i].id,
                                          content |-> ExpectedToolResult(RoundToolCalls[i])]]]

\* a recorded round of two tool_use blocks whose first execution failed and
\* whose second succeeded
C5_Witness ==
    /\ InToolRound
    /\ pc # "tools"
    /\ Len(RoundToolCalls) = 2
    /\ ~RoundToolCalls[1].outcome.ok
    /\ RoundToolCalls[2].outcome.ok
    /\ Len(conversation.messages) = 3

NoToolManager ==
    \/ mode = "legacy" /\ ~legacy.tool_manager
    \/ mode = "sequential" /\ ~conversation.tool_manager

\* C7: when the model's response requests tool use (stop reason tool_use, a
\* tool_use block in it) and no tool manager was supplied, no tool is executed
\* and the caller of generate_response receives that response object itself,
\* not an answer string.
C7_RawResponseReturned ==
    (/\ pc = "done"
     /\ mode = "legacy"
     /\ NoToolManager
     /\ LLMCalls[1].outcome.ok
     /\ LLMCalls[1].outcome.resp.stop_reason = "tool_use"
     /\ HasToolUse(LLMCalls[1].outcome.resp.content, 1)) =>
        /\ ToolCalls = <<>>
        /\ result.kind = "response"
        /\ result.val = LLMCalls[1].outcome.resp

\* C8: in the single-round path a failed model call reaches the caller as an
\* exception, not as an answer string.
C8_LegacyFailurePropagates ==
    (/\ pc = "done"
     /\ mode = "legacy"
     /\ ~LastLLM.outcome.ok) =>
        /\ result.kind = "raise"
        /\ result.val = LastLLM.outcome.error

\* the single-round query finished after a first response with stop reason
\* tool_use, a tool manager being supplied
LegacyToolUseDone ==
    /\ pc = "done"
    /\ mode = "legacy"
    /\ legacy.tool_manager
    /\ LLMCalls[1].outcome.ok
    /\ LLMCalls[1].outcome.resp.stop_reason = "tool_use"

\* C9: in the single-round path, after a first response with stop reason
\* tool_use and with a tool manager, exactly two model calls are made; the
\* second carries no tool definitions and comes after the execution of every
\* tool_use block; its text, when it returns one, is the answer.
C9_LegacyTwoCalls ==
    LegacyToolUseDone =>
        /\ Len(LLMCalls) = 2
        /\ events[1].ev = "llm"
        /\ events[Len(events)].ev = "llm"
        /\ Len(ToolCalls) = Len(ToolUseBlocks(LLMCalls[1].outcome.resp.content))
        /\ LLMCalls[2].phase = "followup"
        /\ LLMCalls[2].params.tools = None
        /\ LLMCalls[2].params.tool_choice = None
        /\ (/\ LLMCalls[2].outcome.ok
            /\ LLMCalls[2].outcome.resp.content # <<>>
            /\ LLMCalls[2].outcome.resp.content[1].type = "text") =>
               result = Returned(LLMCalls[2].outcome.resp.content[1].text)

\* C10: in the single-round path, after a first response that requests tools
\* (stop reason tool_use, at least one tool_use block), every tool_use block is
\* executed exactly once, and the follow-up call's messages are the user query,
\* the assistant's response and one user message with one tool_result per
\* tool_use block, in block order, carrying the block's id.
C10_LegacyFollowupMessages ==
    (LegacyToolUseDone /\ HasToolUse(LLMCalls[1].outcome.resp.content, 1)) =>
        LET content == LLMCalls[1].outcome.resp.content
            blocks == ToolUseBlocks(content)
        IN /\ Len(ToolCalls) = Len(blocks)
           /\ \A i \in 1..Len(blocks) : ToolCalls[i].id = blocks[i].id
           /\ Len(LLMCalls) = 2 =>
                 LET msgs == LLMCalls[2].params.messages
                 IN /\ Len(msgs) = 3
                    /\ msgs[1] = [role |-> "user", content |-> legacy.query]
                    /\ msgs[2] = [role |-> "assistant", content |-> content]
                    /\ msgs[3].role = "user"
                    /\ Len(msgs[3].content) = Len(blocks)
                    /\ \A i \in 1..Len(blocks) :
                          /\ msgs[3].content[i].type = "tool_result"
                          /\ msgs[3].content[i].tool_use_id = blocks[i].id

\* the forced-final model calls recorded
FinalCalls == SelectSeq(LLMCalls, LAMBDA e : e.phase = "final")

\* the loop ended at round max_rounds, the round returned a response with stop
\* reason tool_use, and no final answer is stored
EndedHoldingToolUse ==
    /\ round_num = max_rounds
    /\ response # None
    /\ response[1].stop_reason = "tool_use"
    /\ conversation.final_response = None

\* C11: the forced-final model call is made exactly when the loop ended at
\* round max_rounds with the last response's stop reason still tool_use and no
\* final answer set; it is made at most once, after every round, with the
\* accumulated transcript and without tool definitions, and the text of its
\* first block becomes the final answer.
C11_ForcedFinalExactlyWhenPending ==
    mode = "sequential" =>
        /\ pc = "final" => (EndedHoldingToolUse /\ FinalCalls = <<>>)
        /\ (pc = "done" /\ FinalCalls = <<>>) => ~EndedHoldingToolUse
        /\ pc \in {"round", "tools"} => FinalCalls = <<>>
        /\ Len(FinalCalls) <= 1
        /\ FinalCalls # <<>> =>
              LET f == FinalCalls[1]
              IN /\ pc = "done"
                 /\ events[Len(events)] = f
                 /\ round_num = max_rounds
                 /\ response # None /\ response[1].stop_reason = "tool_use"
                 /\ f.params.messages = conversation.messages
                 /\ Len(f.params.messages) > 1
                 /\ f.params.tools = None
                 /\ f.params.tool_choice = None
                 /\ (/\ f.outcome.ok
                     /\ f.outcome.resp.content # <<>>
                     /\ f.outcome.resp.content[1].type = "text") =>
                        conversation.final_response = Some(f.outcome.resp.content[1].text)

\* a forced-final call after two rounds of tool use, tools having been offered,
\* whose text became the final answer
C11_Witness ==
    /\ mode = "sequential"
    /\ pc = "done"
    /\ max_rounds = 2
    /\ conversation.tools # <<>>
    /\ Len(FinalCalls) = 1
    /\ Len(LLMCalls) = 3
    /\ conversation.final_response = Some("Answer")
    /\ result = Returned("Answer")

\* C12: when the forced-final model call fails, no further model call is made
\* and the query returns the fallback text.
C12_FailedFinalGivesFallback ==
    (mode = "sequential" /\ FinalCalls # <<>> /\ ~FinalCalls[1].outcome.ok) =>
        /\ pc = "done"
        /\ events[Len(events)] = FinalCalls[1]
        /\ Len(FinalCalls) = 1
        /\ result = Returned(FALLBACK)

\* a query whose rounds all succeeded and whose forced-final call failed
C12_Witness ==
    /\ mode = "sequential"
    /\ pc = "done"
    /\ FinalCalls # <<>>
    /\ ~FinalCalls[1].outcome.ok
    /\ \A i \in 1..(Len(LLMCalls) - 1) : LLMCalls[i].outcome.ok
    /\ Len(ToolCalls) >= 1

\* C13: when the model call of round 1 fails, the final answer is set to the
\* fallback text, the loop ends at once, the query has made exactly one model
\* call and executed no tool, and it returns the fallback text.
C13_FirstRoundFailure ==
    (/\ mode = "sequential"
     /\ events # <<>>
     /\ events[1].phase = "round"
     /\ ~events[1].outcome.ok) =>
        /\ pc = "done"
        /\ Len(events) = 1
        /\ events[1].round = 1
        /\ conversation.final_response = Some(FALLBACK)
        /\ result = Returned(FALLBACK)

\* round 1 of a query that allows two rounds and offers tools has failed
C13_Witness ==
    /\ mode = "sequential"
    /\ pc = "done"
    /\ max_rounds = 2
    /\ conversation.tools # <<>>
    /\ conversation.tool_manager
    /\ Len(events) = 1
    /\ ~events[1].outcome.ok

\* position in LLMCalls of a failed model call of a round after the first, 0 if none
FailedLaterRound ==
    IF \E i \in 1..Len(LLMCalls) :
          /\ LLMCalls[i].phase = "round" /\ LLMCalls[i].round > 1
          /\ ~LLMCalls[i].outcome.ok
    THEN CHOOSE i \in 1..Len(LLMCalls) :
          /\ LLMCalls[i].phase = "round" /\ LLMCalls[i].round > 1
          /\ ~LLMCalls[i].outcome.ok
    ELSE 0

\* the final answer stored by the round before model call i: a round that ran
\* tools stores none, a round that did not stores the text it took as answer
StoredBefore(i) ==
    IF conversation.tool_manager
    THEN None
    ELSE Some(AnswerOf(LLMCalls[i - 1].outcome.resp).val)

\* the failed later round is the last thing the query did
StoppedAtFailure(i) ==
    /\ pc = "done"
    /\ i = Len(LLMCalls)
    /\ events[Len(events)] = LLMCalls[i]
    /\ FinalCalls = <<>>
    /\ conversation.final_response = StoredBefore(i)

C14_WitnessNoneStored ==
    /\ mode = "sequential"
    /\ pc = "done"
    /\ FailedLaterRound = 2
    /\ Len(ToolCalls) >= 1
    /\ conversation.final_response = None
    /\ result = Returned(FALLBACK)

\* the last model call is a round's call that returned a response whose stop
\* reason is not tool_use and whose first block is a text block
DirectTextAnswer ==
    /\ mode = "sequential"
    /\ LLMCalls # <<>>
    /\ LastLLM.phase = "round"
    /\ LastLLM.outcome.ok
    /\ LastLLM.outcome.resp.stop_reason # "tool_use"
    /\ LastLLM.outcome.resp.content # <<>>
    /\ LastLLM.outcome.resp.content[1].type = "text"

\* the round of the last model call stored the text and ended the loop
EndedWithText(t) ==
    /\ pc = "done"
    /\ events[Len(events)] = LastLLM
    /\ round_num = LastLLM.round
    /\ conversation.final_response = Some(t)

\* C15 as stated: in any round, a response whose stop reason is not tool_use
\* has its first text block stored as the final answer, the loop ends in that
\* round whatever its number, and that text is what the query returns.
C15_DirectAnswerOriginal ==
    DirectTextAnswer =>
        LET t == LastLLM.outcome.resp.content[1].text
        IN EndedWithText(t) /\ result = Returned(t)

\* C15 amended: as above, but the query returns the text only when it is
\* non-empty; an empty text is stored and the fallback text is returned.
C15_DirectAnswer ==
    DirectTextAnswer =>
        LET t == LastLLM.outcome.resp.content[1].text
        IN EndedWithText(t) /\ result = Returned(IF t # "" THEN t ELSE FALLBACK)

\* a text answer given in round 2 of 2, after a round that ran a tool
C15_Witness ==
    /\ DirectTextAnswer
    /\ pc = "done"
    /\ LastLLM.round = 2
    /\ Len(ToolCalls) >= 1
    /\ result = Returned("Answer")

\* the last model call returned a response without content blocks, and it is a
\* call whose text becomes the answer: a round that runs no tools, the first
\* call of the single-round path when no tools are run, its follow-up call, or
\* the forced-final call
EmptyAnswerResponse ==
    /\ pc = "done"
    /\ LLMCalls # <<>>
    /\ events[Len(events)] = LastLLM
    /\ LastLLM.outcome.ok
    /\ LastLLM.outcome.resp.content = <<>>
    /\ \/ LastLLM.phase \in {"final", "followup"}
       \/ /\ LastLLM.phase = "round"
          /\ ~(LastLLM.outcome.resp.stop_reason = "tool_use" /\ conversation.tool_manager)
       \/ /\ LastLLM.phase = "first"
          /\ ~(LastLLM.outcome.resp.stop_reason = "tool_use" /\ legacy.tool_manager)

\* C16: when a model call whose text would become the answer returns no
\* content blocks (a round's direct answer, the first or the follow-up call of
\* the single-round path, the forced-final call), the query returns the fixed
\* empty-response placeholder and raises nothing.
\* Stated for queries whose earlier tool_use responses, if any, each held a
\* tool_use block.
C16_EmptyResponsePlaceholder ==
    (/\ EmptyAnswerResponse
     /\ \A i \in 1..(Len(LLMCalls) - 1) :
           (LLMCalls[i].outcome.ok /\ LLMCalls[i].outcome.resp.stop_reason = "tool_use")
              => HasToolUse(LLMCalls[i].outcome.resp.content, 1))
        => result = Returned(EMPTY_RESPONSE)

\* the same outside the forced-final call
EmptyResponsePlaceholderBeforeFinal ==
    (EmptyAnswerResponse /\ LastLLM.phase # "final") => result = Returned(EMPTY_RESPONSE)

\* position in events of the first failed tool execution, 0 if none
FailedTool ==
    IF \E k \in 1..Len(events) : events[k].ev = "tool" /\ ~events[k].outcome.ok
    THEN CHOOSE k \in 1..Len(events) :
            /\ events[k].ev = "tool" /\ ~events[k].outcome.ok
            /\ \A j \in 1..(k - 1) : ~(events[j].ev = "tool" /\ ~events[j].outcome.ok)
    ELSE 0

\* a model call after event k whose last message is a user message holding the
\* degraded result of the execution recorded as event k
DegradedResultSent(k) ==
    \E j \in (k + 1)..Len(events) :
        /\ events[j].ev = "llm"
        /\ LET msgs == events[j].params.messages
               last == msgs[Len(msgs)]
           IN /\ last.role = "user"
              /\ \E i \in 1..Len(last.content) :
                    last.content[i] = [type |-> "tool_result",
                                       tool_use_id |-> events[k].id,
                                       content |-> ExpectedToolResult(events[k])]

\* C17: in the multi-round path and in the single-round path alike, a failed
\* tool execution does not end the query: its degraded string result is placed
\* in the tool-result message and the query goes on to its next model call.
C17_ToolFailureNeverFatal ==
    (pc = "done" /\ FailedTool # 0) => DegradedResultSent(FailedTool)

\* the same for the multi-round path alone
ToolFailureNeverFatalSequential ==
    (mode = "sequential" /\ pc = "done" /\ FailedTool # 0) =>
        DegradedResultSent(FailedTool)

\* the tools list and the history the caller supplied to the running query
SuppliedTools == IF mode = "legacy" THEN legacy.tools ELSE conversation.tools

SuppliedHistory ==
    IF mode = "legacy" THEN legacy.conversation_history
    ELSE conversation.conversation_history

\* C18: every model call of the round loop of the multi-round path, and the
\* first call of the single-round path, carries the tool definitions with
\* tool_choice auto exactly when the supplied tools list is non-empty; later
\* rounds carry them again, up to the forced-final call.
C18_ToolsOfferedEveryRound ==
    \A i \in 1..Len(LLMCalls) :
        LLMCalls[i].phase \in {"round", "first"} =>
            IF SuppliedTools # <<>>
            THEN /\ LLMCalls[i].params.tools = Some(SuppliedTools)
                 /\ LLMCalls[i].params.tool_choice = Some("auto")
            ELSE /\ LLMCalls[i].params.tools = None
                 /\ LLMCalls[i].params.tool_choice = None

\* two rounds, both offered the tools, then the forced-final call without them
C18_Witness ==
    /\ mode = "sequential"
    /\ pc = "done"
    /\ SuppliedTools # <<>>
    /\ Len(LLMCalls) = 3
    /\ LLMCalls[2].phase = "round" /\ LLMCalls[2].params.tools = Some(SuppliedTools)
    /\ LLMCalls[3].phase = "final" /\ LLMCalls[3].params.tools = None
    /\ Len(ToolCalls) >= 2

\* C19: when a conversation history is supplied, the system prompt of every
\* model call of the query contains it (every round and the forced-final call;
\* the first and the follow-up call of the single-round path); when none is
\* supplied, no system prompt has a history block.
C19_HistoryInEverySystemPrompt ==
    \A i \in 1..Len(LLMCalls) :
        IF SuppliedHistory # None
        THEN LLMCalls[i].params.system.history = SuppliedHistory
        ELSE LLMCalls[i].params.system.history = None

\* a history went into round 1, round 2 and the forced-final call
C19_Witness ==
    /\ mode = "sequential"
    /\ pc = "done"
    /\ SuppliedHistory = Some("User: hi")
    /\ Len(LLMCalls) = 3
    /\ LLMCalls[3].phase = "final"
    /\ LLMCalls[3].params.system.history = Some("User: hi")

\* a history went into both calls of the single-round path
HistoryInLegacyFollowup ==
    /\ mode = "legacy"
    /\ pc = "done"
    /\ SuppliedHistory = Some("User: hi")
    /\ Len(LLMCalls) = 2
    /\ LLMCalls[2].phase = "followup"
    /\ LLMCalls[2].params.system.history = Some("User: hi")

IsPrefix(a, b) == Len(a) <= Len(b) /\ SubSeq(b, 1, Len(a)) = a

\* the transcript starts with the user's query, followed by no other opening
\* message, and the messages of every model call are a prefix of those of
\* every later call and of the transcript
TranscriptGrows ==
    mode = "sequential" =>
        /\ conversation.messages # <<>>
        /\ conversation.messages[1] =
              [role |-> "user", content |-> conversation.initial_query]
        /\ Len(conversation.messages) > 1 => conversation.messages[2].role = "assistant"
        /\ \A i \in 1..Len(LLMCalls) :
              /\ LLMCalls[i].params.messages # <<>>
              /\ IsPrefix(LLMCalls[i].params.messages, conversation.messages)
              /\ \A j \in (i + 1)..Len(LLMCalls) :
                    IsPrefix(LLMCalls[i].params.messages, LLMCalls[j].params.messages)

\* a step of a running query only appends to the transcript, and a step that
\* makes a model call passes the whole transcript as it stands
TranscriptStep ==
    (mode = "sequential" /\ mode' = "sequential") =>
        /\ IsPrefix(conversation.messages, conversation'.messages)
        /\ (Len(events') = Len(events) + 1 /\ events'[Len(events')].ev = "llm") =>
              events'[Len(events')].params.messages = conversation.messages

\* C20: in every reachable state of a multi-round query the transcript starts
\* with exactly one user message holding the initial query; the transcript is
\* append-only, the messages of a model call being a prefix of those of every
\* later call; and every model call receives the whole current transcript.
C20_TranscriptAppendOnly == [] TranscriptGrows /\ [][TranscriptStep]_vars

\* three model calls over a transcript that grew from 1 to 3 to 5 messages
C20_Witness ==
    /\ mode = "sequential"
    /\ pc = "done"
    /\ Len(LLMCalls) = 3
    /\ Len(LLMCalls[1].params.messages) = 1
    /\ Len(LLMCalls[2].params.messages) = 3
    /\ Len(LLMCalls[3].params.messages) = 5
    /\ Len(conversation.messages) = 5

\* the ConversationState holds nothing but the query it was created for
FreshConversation(conv) ==
    /\ conv.messages = <<[role |-> "user", content |-> conv.initial_query]>>
    /\ conv.tool_results = <<>>
    /\ conv.round_number = 0
    /\ conv.final_response = None

\* a query that has made no model call yet holds a fresh state, and the first
\* model call of a query gets the query's own user message and no summary
FreshAtFirstCall ==
    mode = "sequential" =>
        /\ (events = <<>> /\ pc = "round") => FreshConversation(conversation)
        /\ LLMCalls # <<>> =>
              /\ LLMCalls[1].params.messages =
                    <<[role |-> "user", content |-> conversation.initial_query]>>
              /\ LLMCalls[1].params.system.summary = None

\* the step that starts a query, whatever an earlier query left behind,
\* creates a fresh state
FreshOnStart ==
    (pc = "idle" /\ mode' = "sequential") => FreshConversation(conversation')

\* C21: the ConversationState is created afresh for every query and shares
\* nothing with that of an earlier query on the same generator: the first
\* model call of each query receives only the query's own user message, and
\* the collected results and the round counter start empty and at 0.
C21_FreshStatePerQuery == [] FreshAtFirstCall /\ [][FreshOnStart]_vars

\* the generator is idle after a query that ran two rounds of tools; the next
\* query starts from here
C21_Witness ==
    /\ pc = "idle"
    /\ conversation.round_number = 2
    /\ Len(conversation.tool_results) >= 2
    /\ Len(conversation.messages) = 5

\* the model calls made by the rounds of the loop
RoundCalls == SelectSeq(LLMCalls, LAMBDA e : e.phase = "round")

\* round r is over: its call is recorded and its tools, if any, have run
RoundProcessed(r) ==
    /\ r <= Len(RoundCalls)
    /\ ~(pc = "tools" /\ round_num = r)

\* round r + 1 has been started
NextRoundStarted(r) ==
    \/ r + 1 <= Len(RoundCalls)
    \/ pc = "round" /\ round_num = r + 1

\* round r was below the ceiling, its model call returned, with stop reason tool_use
MayContinue(r) ==
    /\ r < max_rounds
    /\ RoundCalls[r].outcome.ok
    /\ RoundCalls[r].outcome.resp.stop_reason = "tool_use"

\* every response received so far holds text and tool_use blocks only, and
\* one with stop reason tool_use holds a tool_use block
OrdinaryResponses ==
    \A i \in 1..Len(LLMCalls) :
        LLMCalls[i].outcome.ok =>
            LET resp == LLMCalls[i].outcome.resp
            IN /\ \A k \in 1..Len(resp.content) :
                     resp.content[k].type \in {"text", "tool_use"}
               /\ resp.stop_reason = "tool_use" => HasToolUse(resp.content, 1)

\* C26: after round r of the multi-round path has been processed, round r + 1
\* is started exactly when r < max_rounds, the model call of round r returned
\* and its stop reason was tool_use; otherwise the loop is left and no model
\* call of a round r + 1 is made.  Stated for ordinary responses.
C26_NextRoundIffToolUse ==
    (mode = "sequential" /\ OrdinaryResponses) =>
        \A r \in 1..Len(RoundCalls) :
            /\ RoundCalls[r].round = r
            /\ RoundProcessed(r) => (NextRoundStarted(r) <=> MayContinue(r))

\* the same for queries that supply a tool manager
NextRoundIffToolUseWithManager ==
    (mode = "sequential" /\ conversation.tool_manager) =>
        \A r \in 1..Len(RoundCalls) :
            /\ RoundCalls[r].round = r
            /\ RoundProcessed(r) => (NextRoundStarted(r) <=> MayContinue(r))

\* the rounds over so far whose model call returned
CompletedRounds ==
    {r \in 1..Len(RoundCalls) : RoundProcessed(r) /\ RoundCalls[r].outcome.ok}

\* the rounds over so far that ran the tool branch and were recorded
RecordedRounds ==
    {r \in CompletedRounds :
        /\ RoundCalls[r].outcome.resp.stop_reason = "tool_use"
        /\ conversation.tool_manager}

\* C27 as stated: round_number starts at 0 and at every point of a multi-round
\* query equals the number of rounds whose model call has completed so far, a
\* round that ended with a direct answer included.
C27_RoundNumberOriginal ==
    mode = "sequential" => conversation.round_number = Cardinality(CompletedRounds)

\* C27 amended: round_number starts at 0 and at every point of a multi-round
\* query equals the number of rounds recorded by add_round_result so far (stop
\* reason tool_use, with a tool manager); a round that ends with a direct
\* answer, or fails, leaves it unchanged.
C27_RoundNumberCountsRecordedRounds ==
    mode = "sequential" => conversation.round_number = Cardinality(RecordedRounds)

\* a tool round was counted, the direct answer of round 2 was not
C27_Witness ==
    /\ mode = "sequential"
    /\ pc = "done"
    /\ Len(RoundCalls) = 2
    /\ FinalCalls = <<>>
    /\ RoundCalls[2].outcome.ok
    /\ RoundCalls[2].outcome.resp.stop_reason = "end_turn"
    /\ conversation.round_number = 1

\* a step of a running query leaves a final answer that is stored as it is
FinalAnswerKept ==
    (/\ mode = "sequential" /\ mode' = "sequential"
     /\ conversation.final_response # None)
        => conversation'.final_response = conversation.final_response

\* C28: during one multi-round query the final answer is set at most once and,
\* once set, is never overwritten by a later round or by the forced-final step,
\* with or without a tool manager.  Stated for queries whose responses so far
\* are ordinary and start with a non-empty text.
C28_FinalAnswerSetOnce ==
    [][(/\ OrdinaryResponses
        /\ \A i \in 1..Len(LLMCalls) :
              /\ LLMCalls[i].outcome.ok
              /\ AnswerOf(LLMCalls[i].outcome.resp) = Returned("Answer"))
          => FinalAnswerKept]_vars

\* the same for queries that supply a tool manager
FinalAnswerSetOnceWithManager ==
    [][conversation.tool_manager => FinalAnswerKept]_vars

\* add_round_result has been applied to args
Recorded == args.op = "add_round_result" /\ out # None

\* what every application of add_round_result does: the transcript grows at
\* its end, first by one assistant message holding the text and tool_use
\* blocks of the response in their order, and every tool output joins
\* tool_results in order
RecordsAssistantAndResults ==
    LET c == args.conv
        o == out[1]
        k == Len(c.messages)
    IN /\ IsPrefix(c.messages, o.messages)
       /\ Len(o.messages) > k
       /\ o.messages[k + 1] =
             [role |-> "assistant",
              content |-> SelectSeq(args.resp.content,
                                    LAMBDA b : b.type \in {"text", "tool_use"})]
       /\ \A j \in (k + 2)..Len(o.messages) : o.messages[j].role # "assistant"
       /\ o.tool_results = c.tool_results \o args.tool_results

\* one user message follows the assistant message, pairing result i with id i
\* over the overlapping prefix
PairsAppended ==
    LET c == args.conv
        o == out[1]
        k == Len(c.messages)
        n == Min(Len(args.tool_results), Len(args.tool_use_ids))
    IN /\ Len(o.messages) = k + 2
       /\ o.messages[k + 2].role = "user"
       /\ Len(o.messages[k + 2].content) = n
       /\ \A i \in 1..n :
             o.messages[k + 2].content[i] =
                 [type |-> "tool_result", tool_use_id |-> args.tool_use_ids[i],
                  content |-> args.tool_results[i]]

NoPairsAppended == Len(out[1].messages) = Len(args.conv.messages) + 1

Summarized ==
    /\ args.op = "_summarize_tool_results"
    /\ out # None
    /\ args.tool_results # <<>>

\* the i-th entry as the summary shows it
Shown(e) == IF Len(e) > 300 THEN SubSeq(e, 1, 300) \o "..." ELSE e

LinePrefix(i) == "Result " \o ToString(i) \o ": "

LineLength(i) == Len(LinePrefix(i)) + Len(Shown(args.tool_results[i]))

RECURSIVE LineStart(_)
\* position in the summary of the first character of line i
LineStart(i) == IF i = 1 THEN 1 ELSE LineStart(i - 1) + LineLength(i - 1) + 1

\* C30: the summary of the tool results has exactly one line per entry of
\* tool_results, in order; line i (from 1) is "Result i: " followed by the
\* entry, an entry of more than 300 characters being cut to its first 300
\* characters followed by "...", a shorter one left as it is.  The lines are
\* the pieces the summary joins with a newline, whatever an entry holds itself.
C30_SummaryLines ==
    Summarized =>
        LET text == out[1]
            n == Len(args.tool_results)
        IN /\ Len(text) = LineStart(n) + LineLength(n) - 1
           /\ \A i \in 1..n :
                 LET e == args.tool_results[i]
                     from == LineStart(i)
                     body == SubSeq(text, from + Len(LinePrefix(i)),
                                    from + LineLength(i) - 1)
                 IN /\ SubSeq(text, from, from + Len(LinePrefix(i)) - 1) = LinePrefix(i)
                    /\ IF Len(e) > 300
                       THEN /\ Len(body) = 303
                            /\ SubSeq(body, 1, 300) = SubSeq(e, 1, 300)
                            /\ SubSeq(body, 301, 303) = "..."
                       ELSE body = e
                    /\ i < n =>
                          SubSeq(text, from + LineLength(i), from + LineLength(i)) = "\n"

\* an entry of exactly 300 characters shown whole, before one of 301 that is cut
C30_Witness ==
    /\ Summarized
    /\ Len(args.tool_results) = 2
    /\ Len(args.tool_results[1]) = 300
    /\ Len(args.tool_results[2]) = 301
    /\ Len(out[1]) = Len("Result 1: ") + 300 + 1 + Len("Result 2: ") + 303

\* positions in events of the calls of reset_sources on the tool manager
ResetCalls == {i \in 1..Len(events) : events[i].ev = "reset_sources"}

\* C22: for every query the orchestrator calls the registry's reset_sources
\* exactly once, at the very start of the query, before the first model call
\* and before any tool execution, and never between rounds.  Stated for a
\* multi-round query that was given a tool manager and ran a tool.
C22_ResetSourcesOnceAtStart ==
    (/\ mode = "sequential"
     /\ pc = "done"
     /\ conversation.tool_manager
     /\ ToolCalls # <<>>) => ResetCalls = {1}

\* C23: after any sequence of tool registrations and executions,
\* reset_sources() followed immediately by get_last_sources() returns an empty
\* sequence.
C23_ResetThenGetIsEmpty ==
    \A i \in 2..Len(ops) :
        (ops[i - 1].op = "reset" /\ ops[i].op = "get") => ops[i].ret = <<>>

\* a tool found sources, then the reset and the read followed
C23_Witness ==
    /\ Len(ops) = 3
    /\ ops[1].op = "execute" /\ ops[1].outcome = "found"
    /\ ops[2].op = "reset"
    /\ ops[3].op = "get" /\ ops[3].ret = <<>>

\* the executions before position i that ran a handler
RanBefore(i) ==
    {j \in 1..(i - 1) : ops[j].op = "execute" /\ ops[j].outcome # "unknown"}

Latest(S) == CHOOSE j \in S : \A k \in S : k <= j

\* C24: after any sequence of tool executions on one registry,
\* get_last_sources returns exactly the sources of the most recently executed
\* tool, empty when that execution found nothing or failed; sources of earlier
\* executions are neither kept nor appended to: the last tool to run wins.
C24_LastExecutionWins ==
    \A i \in 1..Len(ops) :
        (/\ ops[i].op = "get"
         /\ RanBefore(i) # {}
         /\ \A k \in (Latest(RanBefore(i)) + 1)..(i - 1) : ops[k].op # "reset") =>
            LET j == Latest(RanBefore(i))
            IN ops[i].ret = Produced(ops[j].name, ops[j].outcome)

\* two tools found sources one after the other; the read shows the second's
C24_Witness ==
    /\ Len(ops) = 3
    /\ ops[1].op = "execute" /\ ops[1].outcome = "found"
    /\ ops[2].op = "execute" /\ ops[2].outcome = "found"
    /\ ops[1].name # ops[2].name
    /\ ops[3].op = "get"
    /\ ops[3].ret = SourcesOf(ops[2].name)

\* a tool that found nothing after one that did leaves no sources
NothingFoundClears ==
    /\ Len(ops) = 3
    /\ ops[1].op = "execute" /\ ops[1].outcome = "found"
    /\ ops[2].op = "execute" /\ ops[2].outcome \in {"empty", "error"}
    /\ ops[3].op = "get"
    /\ ops[3].ret = <<>>

\* positions in calls of the calls of the given kind
CallsOf(kind) == {i \in 1..Len(calls) : calls[i].call = kind}

\* the entry point has called the generator
Generated == entry.pc \in {"finish", "done"}

\* with a session id: the history of that session is fetched first and passed
\* to the generator, and once an answer is there the exchange is appended,
\* once, after it
WithSessionId ==
    LET sid == entry.session_id[1]
    IN /\ CallsOf("get_conversation_history") = {1}
       /\ calls[1].session_id = sid
       /\ entry.pc # "done" => entry.history = GetHistory(sessions, sid)
       /\ Generated =>
             /\ CallsOf("generate_response") = {2}
             /\ calls[2].conversation_history = entry.history
       /\ (entry.pc = "done" /\ entry.result.kind = "str") =>
             /\ CallsOf("add_exchange") = {Len(calls)}
             /\ calls[Len(calls)].exchange =
                   [session_id |-> sid, query |-> entry.query,
                    answer |-> entry.result.val]
             /\ calls[2].ret = entry.result
             /\ sessions # <<>>
             /\ sessions[Len(sessions)] = calls[Len(calls)].exchange
       /\ entry.pc # "done" => CallsOf("add_exchange") = {}

\* without one: no fetch, no append, and the generator gets no history
WithoutSessionId ==
    /\ CallsOf("get_conversation_history") = {}
    /\ CallsOf("add_exchange") = {}
    /\ entry.history = None
    /\ Generated =>
          /\ CallsOf("generate_response") = {1}
          /\ calls[1].conversation_history = None

SessionHandling ==
    entry.pc # "idle" =>
        IF entry.session_id # None THEN WithSessionId ELSE WithoutSessionId

\* the store changes only by the one exchange of a query that has a session id
StoreStep ==
    sessions' # sessions =>
        /\ entry.pc = "finish"
        /\ entry.session_id # None
        /\ Len(sessions') = Len(sessions) + 1
        /\ IsPrefix(sessions, sessions')

\* C25: in the query entry point, with a session id the history of that
\* session is fetched before the generator is called and passed to it, and the
\* exchange (session id, query, answer) is appended exactly once after the
\* answer is produced; without one, neither the fetch nor the append happens
\* and the generator receives no history.
C25_SessionHistoryAndExchange == [] SessionHandling /\ [][StoreStep]_vars

\* a second query of a session got the first exchange as history and added its own
C25_Witness ==
    /\ entry.pc = "done"
    /\ entry.session_id = Some("session_1")
    /\ entry.history # None
    /\ Len(entry.history[1]) = 1
    /\ Len(sessions) = 2
    /\ sessions[1].session_id = "session_1"
    /\ sessions[2].session_id = "session_1"
    /\ calls[Len(calls)].call = "add_exchange"

\* a query without a session id ended and the store is as it was
NoSessionNoExchange ==
    /\ entry.pc = "done"
    /\ entry.session_id = None
    /\ entry.result.kind = "str"
    /\ Len(sessions) = 1

\* the results of the tools executed before the event at position n of events,
\* as the model is given them
ResultsBefore(n) ==
    LET ran == SelectSeq(SubSeq(events, 1, n - 1), LAMBDA e : e.ev = "tool")
    IN [k \in 1..Len(ran) |-> ExpectedToolResult(ran[k])]

\* positions in events of the model calls
LLMPositions == {n \in 1..Len(events) : events[n].ev = "llm"}

\* C31: in every model call of the multi-round path, a round's or the
\* forced-final one, the system prompt holds the summary of the collected tool
\* results exactly when some result had been collected when the call was made,
\* and the summary is then the one of all results collected so far.
C31_SummaryIffResults ==
    mode = "sequential" =>
        \A n \in LLMPositions :
            LET system == events[n].params.system
                collected == ResultsBefore(n)
            IN /\ system.summary # None <=> collected # <<>>
               /\ collected # <<>> =>
                     system.summary = Some(SummarizeToolResults(collected))

\* three model calls: the first without a summary, the second round and the
\* forced-final call each with the summary of what was collected before it
C31_Witness ==
    /\ mode = "sequential"
    /\ pc = "done"
    /\ Len(LLMCalls) = 3
    /\ LLMCalls[3].phase = "final"
    /\ LLMCalls[1].params.system.summary = None
    /\ LLMCalls[2].params.system.summary # None
    /\ LLMCalls[3].params.system.summary # None
    /\ LLMCalls[3].params.system.summary # LLMCalls[2].params.system.summary

\* a second round called without a summary: the first round ran no tool
SecondRoundWithoutSummary ==
    /\ mode = "sequential"
    /\ Len(LLMCalls) = 2
    /\ LLMCalls[2].phase = "round"
    /\ LLMCalls[2].params.system.summary = None

\* a multi-round query is between its call and its return
Running == mode = "sequential" /\ pc \in {"round", "tools", "final"}

\* the tool_use blocks of the current response still to be executed
BlocksLeft ==
    Cardinality({i \in exec.pos..Len(exec.content) : exec.content[i].type = "tool_use"})

\* the most steps one round takes: its model call and one per tool_use block
RoundCost == MaxToolUses + 1

\* an upper bound on the external calls a running query still makes: the
\* rest of this round, the rounds after it and the forced-final call
StepsLeft ==
    CASE pc = "round" -> (max_rounds - round_num + 1) * RoundCost + 1
      [] pc = "tools" -> BlocksLeft + (max_rounds - round_num) * RoundCost + 1
      [] pc = "final" -> 1
      [] OTHER -> 0

\* the calls made so far stay within the ceiling, and a running query can
\* always take its next step
CallsWithinCeiling ==
    (mode = "sequential" /\ max_rounds >= 1) =>
        /\ Len(RoundCalls) <= max_rounds
        /\ Len(FinalCalls) <= 1
        /\ Len(LLMCalls) <= max_rounds + 1
        /\ Len(LLMCalls) = Len(RoundCalls) + Len(FinalCalls)
        /\ StepsLeft >= 0
        /\ Running => ENABLED (RoundCall \/ ToolExec \/ FinalCall)

\* every step of a running query makes one external call and lowers the
\* bound on the calls still to come
StepsLeftDecreases ==
    Running =>
        /\ Len(events') = Len(events) + 1
        /\ StepsLeft' < StepsLeft

\* C32: for every max_rounds >= 1, whatever each model call and each tool
\* execution does (return or fail), a multi-round query ends: it can always
\* take its next step and every step lowers a non-negative bound on the steps
\* left; it makes at most max_rounds + 1 model calls, at most max_rounds of
\* them in the loop and at most one after it.
C32_TerminatesWithinCallBound == [] CallsWithinCeiling /\ [][StepsLeftDecreases]_vars

\* a query that used every call it may make: max_rounds rounds and the final call
C32_Witness ==
    /\ mode = "sequential"
    /\ pc = "done"
    /\ max_rounds = MaxRoundsBound
    /\ Len(RoundCalls) = max_rounds
    /\ Len(LLMCalls) = max_rounds + 1
    /\ Len(ToolCalls) = max_rounds * MaxToolUses

\* the ceiling is reached without a tool manager as well
CeilingWithoutToolManager ==
    /\ mode = "sequential"
    /\ pc = "done"
    /\ ~conversation.tool_manager
    /\ max_rounds = MaxRoundsBound
    /\ Len(LLMCalls) = max_rounds

\* the ids of the tool_use blocks of an assistant message, in order
RequestedIds(msg) ==
    LET uses == SelectSeq(msg.content, LAMBDA b : b.type = "tool_use")
    IN [i \in 1..Len(uses) |-> uses[i].id]

\* the ids a message of tool results answers, in order
AnsweredIds(msg) == [i \in 1..Len(msg.content) |-> msg.content[i].tool_use_id]

\* in a transcript, an assistant message with tool_use blocks is followed at
\* once by a user message holding one tool_result per block, same ids, same
\* order; and every user message after the query is such an answer
PairedToolUse(msgs) ==
    /\ \A i \in 1..Len(msgs) :
          (msgs[i].role = "assistant" /\ RequestedIds(msgs[i]) # <<>>) =>
              /\ i + 1 <= Len(msgs)
              /\ msgs[i + 1].role = "user"
              /\ \A k \in 1..Len(msgs[i + 1].content) :
                    msgs[i + 1].content[k].type = "tool_result"
              /\ AnsweredIds(msgs[i + 1]) = RequestedIds(msgs[i])
    /\ \A i \in 2..Len(msgs) :
          msgs[i].role = "user" =>
              /\ msgs[i - 1].role = "assistant"
              /\ msgs[i].content # <<>>
              /\ \A k \in 1..Len(msgs[i].content) :
                    msgs[i].content[k].type = "tool_result"
              /\ AnsweredIds(msgs[i]) = RequestedIds(msgs[i - 1])

\* C33: in every transcript the multi-round path sends to the model, each
\* assistant message holding k >= 1 tool_use blocks is immediately followed
\* by a user message holding exactly k tool_result blocks whose tool_use_ids
\* are the ids of those blocks in the same order; no tool_use block is left
\* without its result and no tool_result names an id that was not requested.
C33_ToolUsePairedWithResults ==
    mode = "sequential" =>
        \A i \in 1..Len(LLMCalls) : PairedToolUse(LLMCalls[i].params.messages)

\* a forced-final call whose transcript holds two rounds of MaxToolUses
\* tool_use blocks each, one execution of which failed
C33_Witness ==
    /\ mode = "sequential"
    /\ Len(LLMCalls) = 3
    /\ LLMCalls[3].phase = "final"
    /\ LET msgs == LLMCalls[3].params.messages
       IN /\ Len(msgs) = 5
          /\ Len(RequestedIds(msgs[2])) = MaxToolUses
          /\ Len(msgs[3].content) = MaxToolUses
          /\ Len(RequestedIds(msgs[4])) = MaxToolUses
          /\ Len(msgs[5].content) = MaxToolUses
    /\ \E k \in 1..Len(ToolCalls) : ~ToolCalls[k].outcome.ok

\* each recorded model call after the first got a longer transcript than the
\* call before it
TranscriptLongerEachCall ==
    \A i \in 2..Len(LLMCalls) :
        Len(LLMCalls[i].params.messages) > Len(LLMCalls[i - 1].params.messages)

\* C34: within one multi-round query every model call after the first is made
\* with a transcript strictly longer than that of the previous call, with or
\* without a tool manager.  Stated for ordinary responses.
C34_TranscriptStrictlyLonger ==
    (mode = "sequential" /\ OrdinaryResponses) => TranscriptLongerEachCall

\* the same for queries that supply a tool manager, whatever the responses
TranscriptStrictlyLongerWithManager ==
    (mode = "sequential" /\ conversation.tool_manager) => TranscriptLongerEachCall

\* user, assistant, user, ..., user
StrictAlternation(msgs) ==
    /\ msgs # <<>>
    /\ \A j \in 1..Len(msgs) :
          msgs[j].role = IF j % 2 = 1 THEN "user" ELSE "assistant"
    /\ msgs[Len(msgs)].role = "user"

\* every assistant message of the transcript holds a tool_use block
EveryAssistantRequests(msgs) ==
    \A j \in 1..Len(msgs) :
        msgs[j].role = "assistant" => RequestedIds(msgs[j]) # <<>>

\* an assistant message without a tool_use block has no user message after it
UnansweredWithoutRequest(msgs) ==
    \A j \in 1..Len(msgs) :
        (msgs[j].role = "assistant" /\ RequestedIds(msgs[j]) = <<>>) =>
            \/ j = Len(msgs)
            \/ msgs[j + 1].role = "assistant"

\* every response received so far holds at least one block, text and
\* tool_use blocks only
TextAndToolUseOnly ==
    \A i \in 1..Len(LLMCalls) :
        LLMCalls[i].outcome.ok =>
            LET resp == LLMCalls[i].outcome.resp
            IN /\ resp.content # <<>>
               /\ \A k \in 1..Len(resp.content) :
                     resp.content[k].type \in {"text", "tool_use"}

\* C35 as stated: in every model call of the multi-round path the messages
\* alternate strictly between user and assistant, starting and ending with a
\* user message, also after a response with stop reason tool_use that holds
\* no tool_use block.  Stated for responses of text and tool_use blocks.
C35_RoleAlternationOriginal ==
    (mode = "sequential" /\ TextAndToolUseOnly) =>
        \A i \in 1..Len(LLMCalls) : StrictAlternation(LLMCalls[i].params.messages)

\* C35, amended: in every model call of the multi-round path the transcript
\* starts with a user message and no two user messages are adjacent; it
\* alternates strictly between user and assistant and ends with a user message
\* as long as every recorded response with stop reason tool_use held a
\* tool_use block; a recorded response that held none leaves an assistant
\* message with no user message after it.
C35_RoleAlternation ==
    mode = "sequential" =>
        \A i \in 1..Len(LLMCalls) :
            LET msgs == LLMCalls[i].params.messages
            IN /\ msgs # <<>>
               /\ msgs[1].role = "user"
               /\ \A j \in 2..Len(msgs) :
                     msgs[j].role = "user" => msgs[j - 1].role = "assistant"
               /\ EveryAssistantRequests(msgs) => StrictAlternation(msgs)
               /\ UnansweredWithoutRequest(msgs)

\* a forced-final call on a transcript of two answered rounds, and before it a
\* query whose second round was called right after an unanswered assistant message
C35_Witness ==
    /\ mode = "sequential"
    /\ Len(LLMCalls) = 3
    /\ LLMCalls[3].phase = "final"
    /\ Len(LLMCalls[3].params.messages) = 5
    /\ StrictAlternation(LLMCalls[3].params.messages)
    /\ EveryAssistantRequests(LLMCalls[3].params.messages)

\* a call made on a transcript that ends with an assistant message
CalledAfterUnansweredAssistant ==
    /\ mode = "sequential"
    /\ Len(LLMCalls) = 2
    /\ Len(LLMCalls[2].params.messages) = 2
    /\ LLMCalls[2].params.messages[2].role = "assistant"
    /\ LLMCalls[1].outcome.resp.content = <<TextBlock("Answer")>>

\* this step is a round whose model call raised
RoundCallFailed ==
    /\ mode = "sequential"
    /\ pc = "round"
    /\ Len(events') = Len(events) + 1
    /\ events'[Len(events')].ev = "llm"
    /\ ~events'[Len(events')].outcome.ok

\* a round whose model call raised leaves the conversation as it was, but for
\* the final answer, which round 1 and only round 1 sets, to the fallback
FailedRoundFrame ==
    RoundCallFailed =>
        /\ conversation'.messages = conversation.messages
        /\ conversation'.tool_results = conversation.tool_results
        /\ conversation'.round_number = conversation.round_number
        /\ [conversation' EXCEPT !.final_response = None]
              = [conversation EXCEPT !.final_response = None]
        /\ round_num # 1 => conversation'.final_response = conversation.final_response
        /\ round_num = 1 => conversation'.final_response = Some(FALLBACK)
        /\ pc' = "done"

\* C36: when the model call of a round of the multi-round path fails, the
\* round leaves the transcript, the collected tool results and round_number
\* exactly as they were before it; only the final answer may change, and only
\* in round 1 (to the fallback text), and the loop ends.
C36_FailedRoundLeavesState == [][FailedRoundFrame]_vars

\* the call of round 2 failed after a round of tool use: the transcript, the
\* results and the count of round 1 are all still there
C36_Witness ==
    /\ mode = "sequential"
    /\ pc = "done"
    /\ Len(LLMCalls) = 2
    /\ ~LLMCalls[2].outcome.ok
    /\ LLMCalls[2].phase = "round"
    /\ conversation.messages = LLMCalls[2].params.messages
    /\ Len(conversation.messages) = 3
    /\ Len(conversation.tool_results) = MaxToolUses
    /\ conversation.round_number = 1
    /\ conversation.final_response = None

\* the call of round 1 failed: nothing but the fallback was stored
FirstRoundFailedFrame ==
    /\ mode = "sequential"
    /\ pc = "done"
    /\ Len(LLMCalls) = 1
    /\ ~LLMCalls[1].outcome.ok
    /\ conversation = SetFinalResponse(Create(conversation.initial_query,
                                              conversation.conversation_history,
                                              conversation.tools,
                                              conversation.tool_manager), FALLBACK)

\* C37: called with max_rounds < 1, the multi-round entry point makes no model
\* call and executes no tool, raises nothing, and returns the fixed fallback
\* string: the query is over as soon as it is called.
C37_NoRoundsGivesFallback ==
    (mode = "sequential" /\ max_rounds < 1) =>
        /\ pc = "done"
        /\ events = <<>>
        /\ result = Returned(FALLBACK)
        /\ conversation.messages = <<[role |-> "user", content |-> conversation.initial_query]>>
        /\ conversation.final_response = None

\* a query with history, tools and a tool manager, called with max_rounds = 0
C37_Witness ==
    /\ mode = "sequential"
    /\ max_rounds = 0
    /\ pc = "done"
    /\ conversation.tool_manager
    /\ conversation.tools # <<>>
    /\ conversation.conversation_history # None
    /\ result = Returned(FALLBACK)
    /\ events = <<>>

\* the sources of query q have been read
SourcesRead(q) == inflight[q].pc \in {"read", "done"}

\* what query q's own tool executions left: the sources of the last one, none
\* when it ran no tool
OwnSources(q) ==
    IF inflight[q].produced = None THEN <<>> ELSE inflight[q].produced[1]

\* the sources read for query q were written by a tool execution of another query
ReadForeignSources(q) ==
    /\ SourcesRead(q)
    /\ inflight[q].sources # <<>>
    /\ inflight[q].read_from \in QueryIds \ {q}

\* C38: when each of two queries in flight has its own registry, the sources
\* read for a query are always those its own tool executions produced; sources
\* written by a tool execution of the other query are read only when the two
\* share one registry instance, and then there is an interleaving in which
\* this happens (the witness).
C38_OwnRegistryOwnSources ==
    \A q \in DOMAIN inflight :
        /\ ReadForeignSources(q) => sharing
        /\ (SourcesRead(q) /\ ~sharing) =>
              /\ inflight[q].sources = OwnSources(q)
              /\ inflight[q].read_from \in {0, q}

\* one shared registry: query 1 searched and found sources, query 2 then
\* listed an outline, and the sources read for query 1 are those of query 2
C38_Witness ==
    /\ sharing
    /\ DOMAIN inflight = QueryIds
    /\ ReadForeignSources(1)
    /\ OwnSources(1) = SourcesOf("search_course_content")
    /\ inflight[1].sources = SourcesOf("get_course_outline")
    /\ inflight[1].read_from = 2

\* own registries: both queries done, each with the sources of its own tool
SeparateRegistriesSeparateSources ==
    /\ ~sharing
    /\ DOMAIN inflight = QueryIds
    /\ inflight[1].pc = "done"
    /\ inflight[2].pc = "done"
    /\ inflight[1].sources = SourcesOf("search_course_content")
    /\ inflight[2].sources = SourcesOf("get_course_outline")

====
